---- MODULE Spec2Model ----
(***************************************************************************)
(* RTWBS checker: zone graphs of one-clock timed automata, the game-based  *)
(* fixed point of RTWBSChecker::check_rtwbs_equivalence (src/src/core.cpp) *)
(* with its sequential and batched worklist loops, the watchdog of the     *)
(* system-level driver and the System container (src/src/system.cpp).      *)
(***************************************************************************)
EXTENDS Integers, Sequences, FiniteSets, TLC

\* F applied to the value x, evaluated once
Bind(x, F(_)) == F(x)

\* F applied to the zone z unless z is the failed (empty) result <<>>
OrEmpty(z, F(_)) == IF z = <<>> THEN <<>> ELSE F(z)

(***************************************************************************)
(* DBM kernel (UDBM), dimension 2: a zone is the row-major vector          *)
(* <<d00, d01, d10, d11>> of raw bounds, the empty vector <<>> is the      *)
(* "no zone" value the automaton methods return.                           *)
(***************************************************************************)

\* stand-in for the library's largest bound value; every guard is below it
dbm_INFINITY == 100

dimension_ == 2

dbm_STRICT == 0

dbm_WEAK == 1

dbm_LE_ZERO == 1

dbm_LS_INFINITY == 2 * dbm_INFINITY

dbm_bound2raw(bound, strict) == 2 * bound + strict

\* raw addition of two bounds: values add, the sum is weak iff both are weak
dbm_addRawRaw(x, y) ==
    IF x = dbm_LS_INFINITY \/ y = dbm_LS_INFINITY THEN dbm_LS_INFINITY
    ELSE x + y - (IF x % 2 = 1 \/ y % 2 = 1 THEN 1 ELSE 0)

\* the bound of the negated constraint
dbm_negRaw(c) == 1 - c

\* position of cell (i, j) in the vector
Cell(i, j) == i * dimension_ + j + 1

\* <= 0 on the diagonal and the first row, no bound elsewhere: every valuation
dbm_init == <<dbm_LE_ZERO, dbm_LE_ZERO, dbm_LS_INFINITY, dbm_LE_ZERO>>

\* the single valuation with every clock at 0
dbm_zero == <<dbm_LE_ZERO, dbm_LE_ZERO, dbm_LE_ZERO, dbm_LE_ZERO>>

dbm_isEmpty(z) == z[Cell(0, 0)] < dbm_LE_ZERO \/ z[Cell(1, 1)] < dbm_LE_ZERO

\* tighten cell (i, j); a negative cycle marks the DBM empty on its diagonal
dbm_constrain1(z, i, j, c) ==
    IF z[Cell(i, j)] > c
    THEN IF dbm_negRaw(c) >= z[Cell(j, i)]
         THEN [[z EXCEPT ![Cell(i, j)] = c] EXCEPT ![Cell(0, 0)] = -1]
         ELSE [z EXCEPT ![Cell(i, j)] = c]
    ELSE z

\* canonical form of a 2x2 DBM: FALSE when a diagonal is (or becomes) negative
dbm_close(z) ==
    LET cyc == dbm_addRawRaw(z[Cell(0, 1)], z[Cell(1, 0)])
    IN  /\ ~dbm_isEmpty(z)
        /\ cyc >= dbm_LE_ZERO

dbm_up(z) == [z EXCEPT ![Cell(1, 0)] = dbm_LS_INFINITY]

\* clock k := 0
dbm_updateValue(z, k) ==
    [[z EXCEPT ![Cell(k, 0)] = dbm_LE_ZERO] EXCEPT ![Cell(0, k)] = dbm_LE_ZERO]

dbm_relation(x, y) ==
    LET sub == \A c \in 1..4 : x[c] <= y[c]
        sup == \A c \in 1..4 : x[c] >= y[c]
    IN  IF sub /\ sup THEN "base_EQUAL"
        ELSE IF sub THEN "base_SUBSET"
        ELSE IF sup THEN "base_SUPERSET"
        ELSE "base_DIFFERENT"

RECURSIVE ConstrainAll(_, _, _)
\* for (g : cs) dbm_constrain1(z, dim, g.i, g.j, g.value), from the k-th on
ConstrainAll(z, cs, k) ==
    IF k > Len(cs) THEN z
    ELSE ConstrainAll(dbm_constrain1(z, cs[k].i, cs[k].j, cs[k].value), cs, k + 1)

(***************************************************************************)
(* Automaton model (builder API)                                           *)
(***************************************************************************)

tau_action_name == "tau"

default_initial_location == 0

max_states_limit == 100000

Constraint(i, j, bound, strict) == [i |-> i, j |-> j, value |-> dbm_bound2raw(bound, strict)]

\* x <= b and x >= b on the single clock 1
XLe(b) == Constraint(1, 0, b, dbm_WEAK)

XGe(b) == Constraint(0, 1, -b, dbm_WEAK)

\* add_transition + add_guard* + add_reset* + add_synchronization
Transition(from, to, action, guards, resets, channel, sender) ==
    [from_location |-> from, to_location |-> to,
     action |-> IF action = tau_action_name \/ action = "" THEN tau_action_name ELSE action,
     guards |-> guards, resets |-> resets, channel |-> channel,
     is_sender |-> (channel # "" /\ sender),
     is_receiver |-> (channel # "" /\ ~sender)]

has_synchronization(t) == t.channel # ""

Location(id, invs) == [id |-> id, invariants |-> invs]

TimedAutomaton(locs, trans) == [locations_ |-> locs, transitions_ |-> trans]

\* the Location whose id is location_id: its invariants (none when undeclared)
InvariantsOf(ta, location_id) ==
    LET hits == {k \in 1..Len(ta.locations_) : ta.locations_[k].id = location_id}
    IN  IF hits = {} THEN <<>>
        ELSE ta.locations_[CHOOSE k \in hits : \A m \in hits : k <= m].invariants

apply_invariants(ta, zone, location_id) ==
    Bind(ConstrainAll(zone, InvariantsOf(ta, location_id), 1), LAMBDA result :
         IF ~dbm_close(result) THEN <<>> ELSE result)

\* builder-constructed automata carry no per-clock maxima: plain dbm_up
time_elapse(ta, zone) ==
    IF Len(zone) # dimension_ * dimension_ THEN <<>> ELSE dbm_up(zone)

GuardIndexOk(transition) ==
    \A k \in 1..Len(transition.guards) :
        transition.guards[k].i < dimension_ /\ transition.guards[k].j < dimension_

is_transition_enabled(ta, zone, transition) ==
    IF Len(zone) # dimension_ * dimension_ THEN FALSE
    ELSE IF ~GuardIndexOk(transition) THEN FALSE
    ELSE Bind(ConstrainAll(zone, transition.guards, 1), LAMBDA test_zone :
              dbm_close(test_zone) /\ ~dbm_isEmpty(test_zone))

RECURSIVE ResetAll(_, _, _)
ResetAll(z, resets, k) ==
    IF k > Len(resets) THEN z
    ELSE ResetAll(dbm_updateValue(z, resets[k]), resets, k + 1)

apply_transition(ta, zone, transition) ==
    IF Len(zone) # dimension_ * dimension_ THEN <<>>
    ELSE IF ~GuardIndexOk(transition) THEN <<>>
    ELSE IF \E k \in 1..Len(transition.resets) : transition.resets[k] >= dimension_ THEN <<>>
    ELSE Bind(ResetAll(ConstrainAll(zone, transition.guards, 1), transition.resets, 1),
              LAMBDA result : IF ~dbm_close(result) THEN <<>> ELSE result)

\* indices (in insertion order) of the transitions leaving location_id
get_outgoing_transitions(ta, location_id) ==
    SelectSeq([k \in 1..Len(ta.transitions_) |-> k],
              LAMBDA k : ta.transitions_[k].from_location = location_id)

(***************************************************************************)
(* Zone graph: arena states_ (ids are positions - 1), state_map_,          *)
(* adjacency zone_transitions_, BFS queue waiting_list_                    *)
(***************************************************************************)

ZoneState(location_id, zone) == [location_id |-> location_id, zone |-> zone]

EmptyGraph ==
    [states_ |-> <<>>, state_map_ |-> {}, zone_transitions_ |-> <<>>,
     waiting_list_ |-> <<>>, constructed_ |-> FALSE]

\* state_map_.find(s): the id stored for an equal zone state, or -1
MapFind(g, s) ==
    IF \E e \in g.state_map_ : e[1] = s
    THEN (CHOOSE e \in g.state_map_ : e[1] = s)[2]
    ELSE -1

\* variant of add_state that appends without looking the state up in state_map_
add_state_no_lookup(g, location_id, zone) ==
    IF Len(zone) # dimension_ * dimension_ THEN <<g, -1>>
    ELSE <<[g EXCEPT !.states_ = Append(@, ZoneState(location_id, zone)),
                     !.state_map_ = @ \cup {<<ZoneState(location_id, zone), Len(g.states_)>>},
                     !.zone_transitions_ = Append(@, <<>>),
                     !.waiting_list_ = Append(@, Len(g.states_))],
           Len(g.states_)>>

\* returns <<graph, state id>>
add_state(g, location_id, zone) ==
    IF Len(zone) # dimension_ * dimension_ THEN <<g, -1>>
    ELSE Bind(MapFind(g, ZoneState(location_id, zone)), LAMBDA found :
              IF found # -1 THEN <<g, found>>
              ELSE <<[g EXCEPT !.states_ = Append(@, ZoneState(location_id, zone)),
                               !.state_map_ = @ \cup {<<ZoneState(location_id, zone),
                                                        Len(g.states_)>>},
                               !.zone_transitions_ = Append(@, <<>>),
                               !.waiting_list_ = Append(@, Len(g.states_))],
                     Len(g.states_)>>)

RECURSIVE ExploreFrom(_, _, _, _, _, _)
\* the loop of explore_state over the outgoing transitions, from the k-th on
ExploreFrom(ta, g, state_id, elapsed_zone, outs, k) ==
    IF k > Len(outs) THEN g
    ELSE Bind(ta.transitions_[outs[k]], LAMBDA transition :
         Bind(OrEmpty(apply_transition(ta, elapsed_zone, transition), LAMBDA successor_zone :
                      apply_invariants(ta, successor_zone, transition.to_location)),
              LAMBDA final_zone :
              IF is_transition_enabled(ta, elapsed_zone, transition) /\ final_zone # <<>>
              THEN Bind(add_state(g, transition.to_location, final_zone), LAMBDA added :
                        ExploreFrom(ta, [added[1] EXCEPT !.zone_transitions_[state_id + 1] =
                                                            Append(@, added[2])],
                                    state_id, elapsed_zone, outs, k + 1))
              ELSE ExploreFrom(ta, g, state_id, elapsed_zone, outs, k + 1)))

explore_state(ta, g, state_id) ==
    Bind(g.states_[state_id + 1], LAMBDA current_state :
         Bind(OrEmpty(apply_invariants(ta, current_state.zone, current_state.location_id),
                      LAMBDA zone_with_inv : time_elapse(ta, zone_with_inv)),
              LAMBDA elapsed_zone :
              IF elapsed_zone = <<>> THEN g
              ELSE ExploreFrom(ta, g, state_id, elapsed_zone,
                               get_outgoing_transitions(ta, current_state.location_id), 1)))

RECURSIVE BfsLoop(_, _, _)
\* while (!waiting_list_.empty() && states_.size() < MAX_STATES)
BfsLoop(ta, g, MAX_STATES) ==
    IF g.waiting_list_ = <<>> \/ Len(g.states_) >= MAX_STATES THEN g
    ELSE BfsLoop(ta, explore_state(ta, [g EXCEPT !.waiting_list_ = Tail(@)],
                                   Head(g.waiting_list_)), MAX_STATES)

\* variant of AlreadyConstructed that never takes the early return
AlreadyConstructed_never(g, force) == FALSE

\* if (constructed_ && !force) return
AlreadyConstructed(g, force) == g.constructed_ /\ ~force

\* construct_zone_graph(initial_location, initial_zone, MAX_STATES, force)
construct_zone_graph4(ta, g, initial_location, initial_zone, MAX_STATES, force) ==
    IF AlreadyConstructed(g, force) THEN g
    ELSE [BfsLoop(ta, add_state(EmptyGraph, initial_location, initial_zone)[1], MAX_STATES)
            EXCEPT !.constructed_ = TRUE]

\* construct_zone_graph() const: location 0, dbm_init zone, forced unless constructed
construct_zone_graph(ta, g) ==
    IF g.constructed_ THEN g
    ELSE construct_zone_graph4(ta, g, default_initial_location, dbm_init,
                               max_states_limit, TRUE)

\* pointer-free lookups on a built graph
get_zone_state(g, state_id) ==
    IF state_id < 0 \/ state_id >= Len(g.states_) THEN "nullptr" ELSE g.states_[state_id + 1]

\* id of the stored state equal to (location_id, zone), -1 for nullptr
find_zone_state(g, location_id, zone) == MapFind(g, ZoneState(location_id, zone))

(***************************************************************************)
(* Zone-state pointers.  W is the table of automaton objects in play:      *)
(* W[o] = [ta |-> automaton, g |-> its zone graph]; a const ZoneState* is  *)
(* [obj |-> o, id |-> position in W[o].g.states_], nullptr is NullPtr.     *)
(***************************************************************************)

NullPtr == [obj |-> 0, id |-> -1]

Ptr(o, id) == IF id < 0 THEN NullPtr ELSE [obj |-> o, id |-> id]

Deref(W, p) == W[p.obj].g.states_[p.id + 1]

\* ta.get_zone_state(state_id) as a pointer
ZoneStatePtr(W, o, state_id) ==
    IF state_id < 0 \/ state_id >= Len(W[o].g.states_) THEN NullPtr ELSE Ptr(o, state_id)

\* ta.find_zone_state(location_id, zone) as a pointer
FindZoneStatePtr(W, o, location_id, zone) == Ptr(o, find_zone_state(W[o].g, location_id, zone))

\* ta.get_state_id(ptr).  A pointer into ta's own arena yields its id.  For a
\* pointer into another automaton's arena the result depends on how the id is
\* looked up: by the pointed-to value in state_map_ ("value"), or by pointer
\* identity ("pointer"), which never finds it; not found is -1.
get_state_id(W, o, ptr, lookup) ==
    IF ptr.obj = o THEN ptr.id
    ELSE IF lookup = "value" THEN MapFind(W[o].g, Deref(W, ptr))
    ELSE -1

(***************************************************************************)
(* Weak semantics helpers                                                  *)
(***************************************************************************)

is_tau(t) == ~has_synchronization(t) /\ (t.action = tau_action_name \/ t.action = "")

\* Up(Z /\ Inv) /\ Inv of a zone state, <<>> when one of the steps is empty
ReadyZone(ta, z) ==
    OrEmpty(OrEmpty(apply_invariants(ta, z.zone, z.location_id),
                    LAMBDA inv : time_elapse(ta, inv)),
            LAMBDA up : apply_invariants(ta, up, z.location_id))

\* invariants, elapse, invariants, guards + resets, target invariants
PostZone(ta, z, tr) ==
    OrEmpty(OrEmpty(ReadyZone(ta, z), LAMBDA ready : apply_transition(ta, ready, tr)),
            LAMBDA post : apply_invariants(ta, post, tr.to_location))

\* the stored zone state reached from z by tr, nullptr when there is none
PostPtr(W, o, z, tr) ==
    Bind(PostZone(W[o].ta, Deref(W, z), tr), LAMBDA post :
         IF post = <<>> THEN NullPtr ELSE FindZoneStatePtr(W, o, tr.to_location, post))

RECURSIVE TauEdges(_, _, _, _, _, _, _)
\* inner loop of tau_closure_raw over the transitions leaving z, from the k-th on;
\* st = [q |-> queue, visited |-> set]
TauEdges(W, o, z, outs, k, q, visited) ==
    IF k > Len(outs) THEN [q |-> q, visited |-> visited]
    ELSE Bind(W[o].ta.transitions_[outs[k]], LAMBDA tr :
         Bind(PostPtr(W, o, z, tr), LAMBDA existing :
              IF is_tau(tr) /\ existing # NullPtr /\ existing \notin visited
              THEN TauEdges(W, o, z, outs, k + 1, Append(q, existing),
                            visited \cup {existing})
              ELSE TauEdges(W, o, z, outs, k + 1, q, visited)))

RECURSIVE TauBfs(_, _, _, _, _)
TauBfs(W, o, q, visited, closure) ==
    IF q = <<>> THEN closure
    ELSE Bind(TauEdges(W, o, Head(q),
                       get_outgoing_transitions(W[o].ta, Deref(W, Head(q)).location_id),
                       1, Tail(q), visited),
              LAMBDA st : TauBfs(W, o, st.q, st.visited, Append(closure, Head(q))))

\* sequence (BFS order) of the zone states reachable from start by tau moves
tau_closure_raw(W, o, start) == TauBfs(W, o, <<start>>, {start}, <<>>)

Range(sq) == {sq[k] : k \in 1..Len(sq)}

RECURSIVE SortedSeq(_, _)
\* the ids of set S as a sequence, ascending (up = TRUE) or descending
SortedSeq(S, up) ==
    IF S = {} THEN <<>>
    ELSE LET x == CHOOSE y \in S : \A w \in S : IF up THEN y.id <= w.id ELSE y.id >= w.id
         IN  <<x>> \o SortedSeq(S \ {x}, up)

\* std::unordered_set iteration order: unspecified, one of two orders here
UniqOrder(S, order) == SortedSeq(S, order = "asc")

RECURSIVE WeakFrom(_, _, _, _, _, _)
\* loops of weak_observable_successors_raw: zone pre[n], transitions from the k-th on
WeakFrom(W, o, action, pre, n, k) ==
    IF n > Len(pre) THEN {}
    ELSE Bind(get_outgoing_transitions(W[o].ta, Deref(W, pre[n]).location_id), LAMBDA outs :
         IF k > Len(outs) THEN WeakFrom(W, o, action, pre, n + 1, 1)
         ELSE Bind(W[o].ta.transitions_[outs[k]], LAMBDA tr :
              Bind(PostPtr(W, o, pre[n], tr), LAMBDA mid :
                   (IF tr.action = action /\ mid # NullPtr
                    THEN Range(tau_closure_raw(W, o, mid)) ELSE {})
                   \cup WeakFrom(W, o, action, pre, n, k + 1))))

weak_observable_successors_raw(W, o, start, action, order) ==
    UniqOrder(WeakFrom(W, o, action, tau_closure_raw(W, o, start), 1, 1), order)

\* WeakKey{start->location_id, action}
WeakKey(W, start, action) == <<Deref(W, start).location_id, action>>

\* returns [succs |-> the cached vector, cache |-> the cache afterwards]
weak_observable_successors_cached(W, o, start, action, order, cache) ==
    Bind(WeakKey(W, start, action), LAMBDA k :
         IF k \in DOMAIN cache THEN [succs |-> cache[k], cache |-> cache]
         ELSE Bind(weak_observable_successors_raw(W, o, start, action, order), LAMBDA vec :
                   [succs |-> vec, cache |-> (k :> vec) @@ cache]))

(***************************************************************************)
(* Asymmetric timing rule                                                  *)
(***************************************************************************)

guards_ok(zone) == ~(~dbm_close(zone) \/ dbm_isEmpty(zone))

\* variant of timing_rule that takes base_EQUAL for neither inclusion
timing_rule_strict(rt, at, rReady, aReady) ==
    LET guards_ok_in_r == guards_ok(rReady)
        guards_ok_in_a == guards_ok(aReady)
        rel == dbm_relation(rReady, aReady)
        r_subset_a == rel = "base_SUBSET"
        a_subset_r == rel = "base_SUPERSET"
    IN  IF guards_ok_in_r /\ guards_ok_in_a
        THEN IF ~has_synchronization(rt) /\ ~has_synchronization(at) THEN r_subset_a
             ELSE IF has_synchronization(rt) /\ has_synchronization(at)
                     /\ rt.channel = at.channel /\ rt.is_sender /\ at.is_sender
                  THEN r_subset_a
             ELSE IF has_synchronization(rt) /\ has_synchronization(at)
                     /\ rt.channel = at.channel /\ rt.is_receiver /\ at.is_receiver
                  THEN a_subset_r
             ELSE FALSE
        ELSE IF ~guards_ok_in_r /\ ~guards_ok_in_a THEN TRUE
        ELSE FALSE

\* variant of timing_rule that asks receivers for the senders' inclusion
timing_rule_symmetric(rt, at, rReady, aReady) ==
    LET guards_ok_in_r == guards_ok(rReady)
        guards_ok_in_a == guards_ok(aReady)
        rel == dbm_relation(rReady, aReady)
        r_subset_a == rel = "base_SUBSET" \/ rel = "base_EQUAL"
    IN  IF guards_ok_in_r /\ guards_ok_in_a
        THEN IF ~has_synchronization(rt) /\ ~has_synchronization(at) THEN r_subset_a
             ELSE IF has_synchronization(rt) /\ has_synchronization(at)
                     /\ rt.channel = at.channel
                     /\ ((rt.is_sender /\ at.is_sender)
                         \/ (rt.is_receiver /\ at.is_receiver))
                  THEN r_subset_a
             ELSE FALSE
        ELSE IF ~guards_ok_in_r /\ ~guards_ok_in_a THEN TRUE
        ELSE FALSE

\* the decision of timing_ok once both sides can delay: rReady and aReady are the
\* ready zones tightened by the guards of rt and at
timing_rule(rt, at, rReady, aReady) ==
    LET guards_ok_in_r == guards_ok(rReady)
        guards_ok_in_a == guards_ok(aReady)
        rel == dbm_relation(rReady, aReady)
        r_subset_a == rel = "base_SUBSET" \/ rel = "base_EQUAL"
        a_subset_r == rel = "base_SUPERSET" \/ rel = "base_EQUAL"
    IN  IF guards_ok_in_r /\ guards_ok_in_a
        THEN IF ~has_synchronization(rt) /\ ~has_synchronization(at) THEN r_subset_a
             ELSE IF has_synchronization(rt) /\ has_synchronization(at)
                     /\ rt.channel = at.channel /\ rt.is_sender /\ at.is_sender
                  THEN r_subset_a
             ELSE IF has_synchronization(rt) /\ has_synchronization(at)
                     /\ rt.channel = at.channel /\ rt.is_receiver /\ at.is_receiver
                  THEN a_subset_r
             ELSE FALSE
        ELSE IF ~guards_ok_in_r /\ ~guards_ok_in_a THEN TRUE
        ELSE FALSE

\* timing_ok(refined, rz, rt, abs, az, at) on zone-state values
timing_ok(refined, rz, rt, abs, az, at) ==
    Bind(ReadyZone(refined, rz), LAMBDA rUp :
         IF rUp = <<>> THEN FALSE
         ELSE Bind(ReadyZone(abs, az), LAMBDA aUp :
                   IF aUp = <<>> THEN FALSE
                   ELSE timing_rule(rt, at, ConstrainAll(rUp, rt.guards, 1),
                                    ConstrainAll(aUp, at.guards, 1))))

(***************************************************************************)
(* validate_pair of check_rtwbs_equivalence.  C is the captured context:   *)
(* [W, ro, ao (refined / abstract object), r, a (the pair's pointers),     *)
(*  rel (relation_), lookup, order].                                       *)
(***************************************************************************)

PairKey(r, a) == <<r, a>>

\* the cheap sync precheck
SyncMatch(x, y) ==
    /\ has_synchronization(x) = has_synchronization(y)
    /\ has_synchronization(x) =>
          /\ x.channel = y.channel
          /\ x.is_sender = y.is_sender
          /\ x.is_receiver = y.is_receiver

\* first candidate pair in relation_: outer loop over outerS, inner loop over the
\* states of innerS with the same location; fwd: outer = refined successors
FirstSupport(C, rSuccs, aSuccs, fwd) ==
    LET outerS == IF fwd THEN rSuccs ELSE aSuccs
        innerS == IF fwd THEN aSuccs ELSE rSuccs
        Li == Len(innerS)
        OuterOf(n) == outerS[((n - 1) \div Li) + 1]
        InnerOf(n) == innerS[((n - 1) % Li) + 1]
        RsOf(n) == IF fwd THEN OuterOf(n) ELSE InnerOf(n)
        AsOf(n) == IF fwd THEN InnerOf(n) ELSE OuterOf(n)
        Cand(n) == PairKey(get_state_id(C.W, C.ro, RsOf(n), C.lookup),
                           get_state_id(C.W, C.ao, AsOf(n), C.lookup))
        hits == {n \in 1..(Len(outerS) * Li) :
                    /\ Deref(C.W, RsOf(n)).location_id = Deref(C.W, AsOf(n)).location_id
                    /\ Cand(n) \in C.rel}
    IN  IF hits = {} THEN <<>>
        ELSE <<Cand(CHOOSE n \in hits : \A m \in hits : n <= m)>>

RECURSIVE MatchFrom_sync_only(_, _, _, _, _, _)
\* variant of MatchFrom that takes the first transition passing the action and sync
\* precheck as the match, whatever its timing and its successors
MatchFrom_sync_only(C, fwd, mt, mSuccs, j, cache) ==
    LET oo == IF fwd THEN C.ao ELSE C.ro
        optr == IF fwd THEN C.a ELSE C.r
        outs == get_outgoing_transitions(C.W[oo].ta, Deref(C.W, optr).location_id)
    IN  IF j > Len(outs) THEN [matched |-> FALSE, cache |-> cache, supporting |-> <<>>]
        ELSE LET ot == C.W[oo].ta.transitions_[outs[j]]
             IN  IF is_tau(ot) \/ mt.action # ot.action \/ ~SyncMatch(mt, ot)
                 THEN MatchFrom_sync_only(C, fwd, mt, mSuccs, j + 1, cache)
                 ELSE [matched |-> TRUE, cache |-> cache, supporting |-> <<>>]

RECURSIVE MatchFrom(_, _, _, _, _, _)
\* the inner loop: look for a transition of the other side matching move mt, whose
\* weak successors are mSuccs; returns [matched, cache, supporting]
MatchFrom(C, fwd, mt, mSuccs, j, cache) ==
    LET oo == IF fwd THEN C.ao ELSE C.ro
        optr == IF fwd THEN C.a ELSE C.r
        outs == get_outgoing_transitions(C.W[oo].ta, Deref(C.W, optr).location_id)
    IN  IF j > Len(outs) THEN [matched |-> FALSE, cache |-> cache, supporting |-> <<>>]
        ELSE Bind(C.W[oo].ta.transitions_[outs[j]], LAMBDA ot :
             IF is_tau(ot) \/ mt.action # ot.action \/ ~SyncMatch(mt, ot)
             THEN MatchFrom(C, fwd, mt, mSuccs, j + 1, cache)
             ELSE Bind(weak_observable_successors_cached(
                           C.W, oo, optr, ot.action, C.order, cache), LAMBDA got :
                  IF got.succs = <<>>
                     \/ ~timing_ok(C.W[IF fwd THEN C.ro ELSE C.ao].ta,
                                   Deref(C.W, IF fwd THEN C.r ELSE C.a), mt,
                                   C.W[oo].ta, Deref(C.W, optr), ot)
                  THEN MatchFrom(C, fwd, mt, mSuccs, j + 1, got.cache)
                  ELSE Bind(FirstSupport(C, IF fwd THEN mSuccs ELSE got.succs,
                                         IF fwd THEN got.succs ELSE mSuccs, fwd),
                            LAMBDA sup :
                       IF sup = <<>> THEN MatchFrom(C, fwd, mt, mSuccs, j + 1, got.cache)
                       ELSE [matched |-> TRUE, cache |-> got.cache,
                             supporting |-> sup])))

\* variant of AfterMatch that goes on to the next move when a move found no match
AfterMatch_skip_unmatched(m, deps) ==
    [ok |-> TRUE, cache |-> m.cache, deps |-> deps \o m.supporting]

\* if(!matched) return false; otherwise the supporting pair is recorded
AfterMatch(m, deps) ==
    IF ~m.matched THEN [ok |-> FALSE, cache |-> m.cache, deps |-> deps]
    ELSE [ok |-> TRUE, cache |-> m.cache, deps |-> deps \o m.supporting]

RECURSIVE DirectionFrom(_, _, _, _, _)
\* one direction of validate_pair: every enabled observable move of the moving side,
\* from the k-th transition on; returns [ok, cache, deps]
DirectionFrom(C, fwd, k, cache, deps) ==
    LET mo == IF fwd THEN C.ro ELSE C.ao
        mptr == IF fwd THEN C.r ELSE C.a
        outs == get_outgoing_transitions(C.W[mo].ta, Deref(C.W, mptr).location_id)
    IN  IF k > Len(outs) THEN [ok |-> TRUE, cache |-> cache, deps |-> deps]
        ELSE Bind(C.W[mo].ta.transitions_[outs[k]], LAMBDA mt :
             IF is_tau(mt) THEN DirectionFrom(C, fwd, k + 1, cache, deps)
             ELSE Bind(weak_observable_successors_cached(
                           C.W, mo, mptr, mt.action, C.order, cache), LAMBDA got :
                  IF got.succs = <<>> THEN DirectionFrom(C, fwd, k + 1, got.cache, deps)
                  ELSE Bind(AfterMatch(MatchFrom(C, fwd, mt, got.succs, 1, got.cache),
                                       deps), LAMBDA am :
                       IF ~am.ok THEN am
                       ELSE DirectionFrom(C, fwd, k + 1, am.cache, am.deps))))

\* forward (refined -> abstract) then backward (abstract -> refined); deps lists the
\* supporting pairs in the order reverse_deps_[supporting].push_back(pk) ran
validate_pair(C) ==
    Bind(DirectionFrom(C, TRUE, 1, C.cache, <<>>), LAMBDA f :
         IF ~f.ok THEN f ELSE DirectionFrom(C, FALSE, 1, f.cache, f.deps))

(***************************************************************************)
(* Inputs: automata built through the builder API with one clock.          *)
(***************************************************************************)

\* L0 --a! [x <= b]--> L1, a sent on channel "a"
SendTA(b) ==
    TimedAutomaton(<<Location(0, <<>>), Location(1, <<>>)>>,
                   <<Transition(0, 1, "a!", <<XLe(b)>>, <<>>, "a", TRUE)>>)

\* L0 --a? [x <= b]--> L1, a received on channel "a"
RecvTA(b) ==
    TimedAutomaton(<<Location(0, <<>>), Location(1, <<>>)>>,
                   <<Transition(0, 1, "a?", <<XLe(b)>>, <<>>, "a", FALSE)>>)

\* Start --receive_data? [x <= rb]--> Middle --send_ack! [x <= sb]--> End
AckTA(rb, sb) ==
    TimedAutomaton(<<Location(0, <<>>), Location(1, <<>>), Location(2, <<>>)>>,
                   <<Transition(0, 1, "receive_data?", <<XLe(rb)>>, <<>>, "receive_data", FALSE),
                     Transition(1, 2, "send_ack!", <<XLe(sb)>>, <<>>, "send_ack", TRUE)>>)

\* L0 --a!--> L1 --b!--> L2
TauAbstractTA ==
    TimedAutomaton(<<Location(0, <<>>), Location(1, <<>>), Location(2, <<>>)>>,
                   <<Transition(0, 1, "a!", <<>>, <<>>, "a", TRUE),
                     Transition(1, 2, "b!", <<>>, <<>>, "b", TRUE)>>)

\* L0 --a!--> L1 --tau--> L2 --b!--> L3: the tau step inserted, locations renumbered
TauRefinedSeqTA ==
    TimedAutomaton(<<Location(0, <<>>), Location(1, <<>>), Location(2, <<>>), Location(3, <<>>)>>,
                   <<Transition(0, 1, "a!", <<>>, <<>>, "a", TRUE),
                     Transition(1, 2, "", <<>>, <<>>, "", FALSE),
                     Transition(2, 3, "b!", <<>>, <<>>, "b", TRUE)>>)

\* L0 --a!--> L3 --tau--> L1 --b!--> L2: the tau step inserted through a fresh location
TauRefinedMidTA ==
    TimedAutomaton(<<Location(0, <<>>), Location(1, <<>>), Location(2, <<>>), Location(3, <<>>)>>,
                   <<Transition(0, 3, "a!", <<>>, <<>>, "a", TRUE),
                     Transition(3, 1, "tau", <<>>, <<>>, "", FALSE),
                     Transition(1, 2, "b!", <<>>, <<>>, "b", TRUE)>>)

\* L0 (x <= 5) --a! [x >= 2] x:=0--> L0, L0 --c--> L1 (c observable, unsynchronised)
LoopTA ==
    TimedAutomaton(<<Location(0, <<XLe(5)>>), Location(1, <<>>)>>,
                   <<Transition(0, 0, "a!", <<XGe(2)>>, <<1>>, "a", TRUE),
                     Transition(0, 1, "c", <<>>, <<>>, "", FALSE)>>)

\* the invariant of the initial location (x <= -1) holds for no valuation
BadInitTA ==
    TimedAutomaton(<<Location(0, <<XLe(-1)>>), Location(1, <<>>)>>,
                   <<Transition(0, 1, "a!", <<XLe(5)>>, <<>>, "a", TRUE)>>)

\* two a! transitions, the second with a guard no valuation satisfies (x <= -1)
TwoGuardTA ==
    TimedAutomaton(<<Location(0, <<>>), Location(1, <<>>)>>,
                   <<Transition(0, 1, "a!", <<XLe(5)>>, <<>>, "a", TRUE),
                     Transition(0, 1, "a!", <<XLe(-1)>>, <<>>, "a", TRUE)>>)

Automata ==
    <<SendTA(5), SendTA(7), SendTA(10), RecvTA(5), RecvTA(8), RecvTA(10),
      AckTA(5, 10), AckTA(8, 7), TauAbstractTA, TauRefinedSeqTA, TauRefinedMidTA,
      LoopTA, BadInitTA, TwoGuardTA>>

(***************************************************************************)
(* State of one check_rtwbs_equivalence(refined, abstract) call            *)
(***************************************************************************)
VARIABLES
    refIdx, absIdx,       \* the automata passed: Automata[refIdx], Automata[absIdx]
    same,                 \* abstract is the very object passed as refined
    lookup,               \* how get_state_id resolves a foreign pointer
    order,                \* iteration order of std::unordered_set
    RTWBS_CANCEL_FLAG,    \* TRUE: points at cancel_flag, FALSE: nullptr
    cancel_flag,          \* the flag a system-level call owns
    rg, ag,               \* zone graphs of the refined / abstract object
    pc,                   \* "idle", "loop", "stats", "done"
    relation_, worklist_, reverse_deps_, weak_succ_cache_, tau_closure_cache_,
    last_stats_,
    result                \* the boolean returned (meaningful when pc = "done")

\* one timing_ok call: its arguments, whether it returned, and the value returned
VARIABLES t_args, t_done, t_ret

VARIABLES
    f_args,               \* positions in RelationAutomata of the automata of a, b, c
    f_objs,               \* the three automaton objects with their zone graphs
    f_checker,            \* the checker object the calls are made on
    f_ret                 \* what each call returned, "none" before it was made

VARIABLES
    g_ta,                 \* position in GraphAutomata of the automaton under construction
    g_graph,              \* states_, state_map_, zone_transitions_, waiting_list_, constructed_
    g_gen,                \* how often the arena was cleared: pointers of older arenas dangle
    g_pc,                 \* "idle" between calls, "bfs" inside the exploration loop
    g_call,               \* arguments of the latest construct_zone_graph call
    g_calls,              \* calls made so far
    g_before              \* graph and arena generation at the entry of the latest call

\* queries of weak_observable_successors_cached on one checker
VARIABLES
    w_objs,               \* the refined and the abstract automaton object, graphs built
    w_cache,              \* weak_succ_cache_ of the checker
    w_query,              \* the latest query <<object, state id, action, vector returned>>
    w_queries             \* queries made so far

\* one check_rtwbs_equivalence(refined, abstract, use_omp = true) call, on top of the
\* pair-level variables
VARIABLES
    b_conf,               \* [omp_threads, hardware_concurrency] of the build and machine
    b_batch,              \* the batch get_batch extracted in the latest loop iteration
    b_writes,             \* checker containers the latest parallel region wrote to
    b_race                \* two threads of a parallel region went to one container,
                          \* one of them writing

\* operations on one System object
VARIABLES
    s_system,             \* [automata_, template_names_, name_to_index_]
    s_last,               \* the latest operation <<name, index, template name, "ok" or exception>>
    s_before,             \* the System before the latest operation
    s_ops                 \* operations made so far

\* one system-level call on the checker whose statistics are last_stats_:
\* check_rtwbs_equivalence(system_refined, system_abstract, parallel_mode,
\* num_workers, timeout_ms) or check_rtwbs_equivalence_detailed(system_refined,
\* system_abstract, results)
VARIABLES
    system_refined, system_abstract,   \* [automata_, template_names_]
    same_system,          \* both arguments are one System object
    api,                  \* "check_rtwbs_equivalence", "check_rtwbs_equivalence_detailed"
    parallel_mode, num_workers, timeout_ms,
    omp,                  \* [omp_threads, hardware_concurrency] of the build and machine
    results,              \* the vector passed to the detailed check
    checked,              \* indices (from 0) of the pair-level calls made, in order
    entry_stats,          \* last_stats_ when the call was entered
    done_flag,
    watchdog,             \* "none", "started", "waiting", "exited"
    elapsed,              \* the wait_for duration has passed
    mpc,                  \* position of the calling thread
    pair_i, all,          \* loop index i and accumulated answer of run_work
    tasks,                \* THREAD_POOL: per pair [st, correct, stats], st "queued",
                          \* "running" or "ready"
    outcome,              \* "none", "true", "false", "TimeoutException"
    done_in_time          \* done_flag was stored before the duration passed

\* the pair-level variables but the statistics and the two of the cancel flag
jvars == <<refIdx, absIdx, same, lookup, order, rg, ag, pc,
           relation_, worklist_, reverse_deps_, weak_succ_cache_, tau_closure_cache_,
           result>>

kvars == <<jvars, last_stats_>>

cvars == <<kvars, RTWBS_CANCEL_FLAG, cancel_flag>>

tvars == <<t_args, t_done, t_ret>>

\* calls of the pair-level functions on three automaton objects a, b, c
pvars == <<f_args, f_objs, f_checker, f_ret>>

gvars == <<g_ta, g_graph, g_gen, g_pc, g_call, g_calls, g_before>>

wvars == <<w_objs, w_cache, w_query, w_queries>>

bvars == <<b_conf, b_batch, b_writes, b_race>>

svars == <<s_system, s_last, s_before, s_ops>>

ovars == <<tvars, pvars, gvars, wvars, bvars, svars>>

\* what a system-level call is made with
avars == <<system_refined, system_abstract, same_system, api, parallel_mode, num_workers,
           timeout_ms, omp, entry_stats>>

dvars == <<avars, results, checked,
           done_flag, watchdog, elapsed, mpc, pair_i, all, tasks, outcome, done_in_time>>

vars == <<cvars, ovars, dvars>>

\* no timing_ok call under observation
TimingIdle == t_args = <<>> /\ t_done = FALSE /\ t_ret = FALSE

RelationIdle == f_args = <<>> /\ f_objs = <<>> /\ f_checker = <<>> /\ f_ret = <<>>

GraphIdle ==
    /\ g_ta = 0 /\ g_graph = <<>> /\ g_gen = 0 /\ g_pc = "idle"
    /\ g_call = <<>> /\ g_calls = 0 /\ g_before = <<>>

WeakIdle == w_objs = <<>> /\ w_cache = <<>> /\ w_query = <<>> /\ w_queries = 0

BatchIdle == b_conf = <<>> /\ b_batch = <<>> /\ b_writes = {} /\ b_race = FALSE

SystemIdle == s_system = <<>> /\ s_last = <<>> /\ s_before = <<>> /\ s_ops = 0

\* nothing but a pair-level or a system-level call under observation
StepwiseIdle == BatchIdle /\ SystemIdle

OthersIdle == TimingIdle /\ RelationIdle /\ GraphIdle /\ WeakIdle /\ StepwiseIdle

\* no system-level call under observation
DriverIdle ==
    /\ system_refined = [automata_ |-> <<>>, template_names_ |-> <<>>]
    /\ system_abstract = [automata_ |-> <<>>, template_names_ |-> <<>>]
    /\ same_system = FALSE /\ api = "check_rtwbs_equivalence"
    /\ parallel_mode = "SERIAL" /\ num_workers = 1 /\ timeout_ms = -1
    /\ omp = [omp_threads |-> 1, hardware_concurrency |-> 1]
    /\ results = <<>> /\ checked = <<>>
    /\ entry_stats = [refined_states |-> 0, abstract_states |-> 0, simulation_pairs |-> 0]
    /\ done_flag = FALSE /\ watchdog = "none" /\ elapsed = FALSE
    /\ mpc = "idle" /\ pair_i = 0 /\ all = TRUE /\ tasks = <<>>
    /\ outcome = "none" /\ done_in_time = FALSE

\* no pair-level call under observation
CheckerIdle ==
    /\ refIdx = 1 /\ absIdx = 1 /\ same = FALSE
    /\ lookup = "value" /\ order = "asc"
    /\ rg = EmptyGraph /\ ag = EmptyGraph
    /\ pc = "idle"
    /\ relation_ = {} /\ worklist_ = <<>> /\ reverse_deps_ = <<>>
    /\ weak_succ_cache_ = <<>> /\ tau_closure_cache_ = <<>>
    /\ last_stats_ = [refined_states |-> 0, abstract_states |-> 0, simulation_pairs |-> 0]
    /\ result = FALSE

\* no pair-level call under observation on a checker used before: only how
\* get_state_id and the unordered sets behave, and the statistics, are open
CheckerParked ==
    /\ refIdx = 1 /\ absIdx = 1 /\ same = FALSE
    /\ rg = EmptyGraph /\ ag = EmptyGraph
    /\ pc = "idle"
    /\ relation_ = {} /\ worklist_ = <<>> /\ reverse_deps_ = <<>>
    /\ weak_succ_cache_ = <<>> /\ tau_closure_cache_ = <<>>
    /\ result = FALSE

RefObj == 1

AbsObj == IF same THEN 1 ELSE 2

\* the object table for graphs gr (refined) and ga (abstract)
World(gr, ga) ==
    [o \in {1, 2} |-> IF o = 1 THEN [ta |-> Automata[refIdx], g |-> gr]
                      ELSE [ta |-> Automata[absIdx], g |-> ga]]

is_cancelled == RTWBS_CANCEL_FLAG /\ cancel_flag

RECURSIVE SeedFrom_equal_only(_, _, _, _)
\* variant of SeedFrom that seeds only the pairs with equal zones
SeedFrom_equal_only(RZ, AZ, i, j) ==
    IF i > Len(RZ) THEN <<>>
    ELSE IF j > Len(AZ) THEN SeedFrom_equal_only(RZ, AZ, i + 1, 1)
    ELSE IF RZ[i].location_id = AZ[j].location_id
            /\ dbm_relation(RZ[i].zone, AZ[j].zone) = "base_EQUAL"
         THEN <<PairKey(i - 1, j - 1)>> \o SeedFrom_equal_only(RZ, AZ, i, j + 1)
         ELSE SeedFrom_equal_only(RZ, AZ, i, j + 1)

RECURSIVE SeedFrom(_, _, _, _)
\* the seeding loops in order: pairs with equal location and DBM(r) within DBM(a)
SeedFrom(RZ, AZ, i, j) ==
    IF i > Len(RZ) THEN <<>>
    ELSE IF j > Len(AZ) THEN SeedFrom(RZ, AZ, i + 1, 1)
    ELSE LET rel == dbm_relation(RZ[i].zone, AZ[j].zone)
         IN  IF RZ[i].location_id = AZ[j].location_id
                /\ (rel = "base_SUBSET" \/ rel = "base_EQUAL")
             THEN <<PairKey(i - 1, j - 1)>> \o SeedFrom(RZ, AZ, i, j + 1)
             ELSE SeedFrom(RZ, AZ, i, j + 1)

\* variant of PushDeps that records no reverse dependency
PushDeps_none(rd, deps, k, pk) == rd

RECURSIVE PushDeps(_, _, _, _)
\* reverse_deps_[supporting].push_back(pk) for each supporting pair of deps
PushDeps(rd, deps, k, pk) ==
    IF k > Len(deps) THEN rd
    ELSE LET s == deps[k]
             old == IF s \in DOMAIN rd THEN rd[s] ELSE <<>>
         IN  PushDeps((s :> Append(old, pk)) @@ rd, deps, k + 1, pk)

\* variant of ResultOf: any pair left in the relation counts
ResultOf_nonempty(rel) == rel # {}

\* the final scan of relation_ for the pair of initial states
ResultOf(rel) == \E p \in rel : p[1] = 0 /\ p[2] = 0

(***************************************************************************)
(* The pair-level check as a function of the checker object K and the two  *)
(* automaton objects [ta, g]: the run of check_rtwbs_equivalence from its  *)
(* entry to its return with no cancellation.  M = [same, lookup, order]:   *)
(* both arguments are one object, how get_state_id resolves a foreign      *)
(* pointer, the iteration order of the unordered sets.                     *)
(***************************************************************************)

CheckStatistics(r, a, p) == [refined_states |-> r, abstract_states |-> a, simulation_pairs |-> p]

\* RTWBSChecker(): empty containers, zero statistics
NewChecker ==
    [relation_ |-> {}, worklist_ |-> <<>>, reverse_deps_ |-> <<>>,
     weak_succ_cache_ |-> <<>>, tau_closure_cache_ |-> <<>>,
     last_stats_ |-> CheckStatistics(0, 0, 0)]

clear_optimisation_state_nothing(K) == K

clear_optimisation_state(K) ==
    [K EXCEPT !.tau_closure_cache_ = <<>>, !.weak_succ_cache_ = <<>>,
              !.reverse_deps_ = <<>>, !.relation_ = {}, !.worklist_ = <<>>]

TimedAutomatonObject(ta, g) == [ta |-> ta, g |-> g]

\* the object table of a call on objects refined and abstract
Objects(refined, abstract) == [o \in {1, 2} |-> IF o = 1 THEN refined ELSE abstract]

\* the captured context of validate_pair for the pair current; E = [W, ao, lookup, order]
PairContext(E, K, current) ==
    [W |-> E.W, ro |-> 1, ao |-> E.ao,
     r |-> ZoneStatePtr(E.W, 1, current[1]),
     a |-> ZoneStatePtr(E.W, E.ao, current[2]),
     rel |-> K.relation_, lookup |-> E.lookup, order |-> E.order,
     cache |-> K.weak_succ_cache_]

\* the checker after validate_pair answered v for the popped pair current
Validated(K, current, v) ==
    Bind(PushDeps(K.reverse_deps_, v.deps, 1, current), LAMBDA rd :
         IF v.ok
         THEN [K EXCEPT !.weak_succ_cache_ = v.cache, !.reverse_deps_ = rd,
                        !.worklist_ = Tail(@)]
         ELSE [K EXCEPT !.weak_succ_cache_ = v.cache,
                        !.relation_ = @ \ {current},
                        !.worklist_ = Tail(@) \o
                            SelectSeq(IF current \in DOMAIN rd THEN rd[current] ELSE <<>>,
                                      LAMBDA q : q \in K.relation_ \ {current}),
                        !.reverse_deps_ = [k \in (DOMAIN rd) \ {current} |-> rd[k]]])

RECURSIVE WorklistLoop(_, _)
\* while(!worklist_.empty()) of the sequential branch, run to its end
WorklistLoop(E, K) ==
    IF K.worklist_ = <<>> THEN K
    ELSE Bind(Head(K.worklist_), LAMBDA current :
         IF current \notin K.relation_
         THEN WorklistLoop(E, [K EXCEPT !.worklist_ = Tail(@)])
         ELSE Bind(Validated(K, current, validate_pair(PairContext(E, K, current))),
                   LAMBDA K2 : IF K2.relation_ = {} THEN K2 ELSE WorklistLoop(E, K2)))

\* last_stats_ += sizes of RZ, AZ and relation_
AddStatistics(K, RZ, AZ) ==
    [K EXCEPT !.last_stats_ =
        CheckStatistics(@.refined_states + Len(RZ), @.abstract_states + Len(AZ),
                        @.simulation_pairs + Cardinality(K.relation_))]

\* the call after both zone graphs are there: seeding (relation_.insert and
\* worklist_.push on what the checker holds), loop, statistics, final scan;
\* M = [same, lookup, order]; returns [checker, refined, abstract, ret]
CheckFromGraphs(K, refined, abstract, M) ==
    Bind(SeedFrom(refined.g.states_, abstract.g.states_, 1, 1), LAMBDA seed :
         IF refined.g.states_ = <<>> \/ abstract.g.states_ = <<>>
         THEN [checker |-> K, refined |-> refined, abstract |-> abstract, ret |-> FALSE]
         ELSE IF K.relation_ \cup Range(seed) = {}
         THEN [checker |-> K, refined |-> refined, abstract |-> abstract, ret |-> FALSE]
         ELSE Bind(AddStatistics(
                       WorklistLoop([W |-> Objects(refined, abstract),
                                     ao |-> IF M.same THEN 1 ELSE 2,
                                     lookup |-> M.lookup, order |-> M.order],
                                    [K EXCEPT !.relation_ = @ \cup Range(seed),
                                              !.worklist_ = @ \o seed]),
                       refined.g.states_, abstract.g.states_),
                   LAMBDA K2 : [checker |-> K2, refined |-> refined,
                                abstract |-> abstract, ret |-> ResultOf(K2.relation_)]))

\* check_rtwbs_equivalence(refined, abstract) on checker K, not cancelled
check_rtwbs_equivalence(K, refined, abstract, M) ==
    Bind([refined EXCEPT !.g = construct_zone_graph(refined.ta, @)], LAMBDA r2 :
         CheckFromGraphs(clear_optimisation_state(K), r2,
                         IF M.same THEN r2
                         ELSE [abstract EXCEPT !.g = construct_zone_graph(abstract.ta, @)],
                         M))

(***************************************************************************)
(* check_rtwbs_simulation(refined, abstract) as a function of the checker  *)
(* object and the two automaton objects, not cancelled.                    *)
(***************************************************************************)

RECURSIVE SimulationSeedFrom(_, _, _, _)
\* the seeding loops of check_rtwbs_simulation: PairKey{location_id, location_id}
SimulationSeedFrom(RZ, AZ, i, j) ==
    IF i > Len(RZ) THEN <<>>
    ELSE IF j > Len(AZ) THEN SimulationSeedFrom(RZ, AZ, i + 1, 1)
    ELSE LET rel == dbm_relation(RZ[i].zone, AZ[j].zone)
         IN  IF RZ[i].location_id = AZ[j].location_id
                /\ (rel = "base_SUBSET" \/ rel = "base_EQUAL")
             THEN <<PairKey(RZ[i].location_id, AZ[j].location_id)>>
                      \o SimulationSeedFrom(RZ, AZ, i, j + 1)
             ELSE SimulationSeedFrom(RZ, AZ, i, j + 1)

\* the condition the seeding loops stand under: if(false)
SimulationSeedEnabled == FALSE

\* what the seeding block of check_rtwbs_simulation puts into relation_ and worklist_
SimulationSeed(RZ, AZ) ==
    IF SimulationSeedEnabled THEN SimulationSeedFrom(RZ, AZ, 1, 1) ELSE <<>>

RECURSIVE SimulationMatchFrom(_, _, _, _, _)
\* the loop over the abstract transitions for the refined move rt: same action,
\* abstract side enabled, timing_ok, a pair of successors in relation_
SimulationMatchFrom(C, rt, rSuccs, j, cache) ==
    LET outs == get_outgoing_transitions(C.W[C.ao].ta, Deref(C.W, C.a).location_id)
    IN  IF j > Len(outs) THEN [matched |-> FALSE, cache |-> cache, supporting |-> <<>>]
        ELSE Bind(C.W[C.ao].ta.transitions_[outs[j]], LAMBDA at :
             IF is_tau(at) \/ rt.action # at.action
             THEN SimulationMatchFrom(C, rt, rSuccs, j + 1, cache)
             ELSE Bind(weak_observable_successors_cached(
                           C.W, C.ao, C.a, at.action, C.order, cache), LAMBDA got :
                  IF got.succs = <<>>
                     \/ ~timing_ok(C.W[C.ro].ta, Deref(C.W, C.r), rt,
                                   C.W[C.ao].ta, Deref(C.W, C.a), at)
                  THEN SimulationMatchFrom(C, rt, rSuccs, j + 1, got.cache)
                  ELSE Bind(FirstSupport(C, rSuccs, got.succs, TRUE), LAMBDA sup :
                       IF sup = <<>>
                       THEN SimulationMatchFrom(C, rt, rSuccs, j + 1, got.cache)
                       ELSE [matched |-> TRUE, cache |-> got.cache,
                             supporting |-> sup])))

RECURSIVE SimulationMovesFrom(_, _, _, _)
\* validate_pair of check_rtwbs_simulation from the k-th refined transition on
SimulationMovesFrom(C, k, cache, deps) ==
    LET outs == get_outgoing_transitions(C.W[C.ro].ta, Deref(C.W, C.r).location_id)
    IN  IF k > Len(outs) THEN [ok |-> TRUE, cache |-> cache, deps |-> deps]
        ELSE Bind(C.W[C.ro].ta.transitions_[outs[k]], LAMBDA rt :
             IF is_tau(rt) THEN SimulationMovesFrom(C, k + 1, cache, deps)
             ELSE Bind(weak_observable_successors_cached(
                           C.W, C.ro, C.r, rt.action, C.order, cache), LAMBDA got :
                  IF got.succs = <<>> THEN SimulationMovesFrom(C, k + 1, got.cache, deps)
                  ELSE Bind(AfterMatch(SimulationMatchFrom(C, rt, got.succs, 1, got.cache),
                                       deps), LAMBDA am :
                       IF ~am.ok THEN am
                       ELSE SimulationMovesFrom(C, k + 1, am.cache, am.deps))))

RECURSIVE SimulationLoop(_, _)
\* while(!worklist_.empty()) of check_rtwbs_simulation, run to its end
SimulationLoop(E, K) ==
    IF K.worklist_ = <<>> THEN K
    ELSE Bind(Head(K.worklist_), LAMBDA current :
         IF current \notin K.relation_
         THEN SimulationLoop(E, [K EXCEPT !.worklist_ = Tail(@)])
         ELSE Bind(Validated(K, current,
                             SimulationMovesFrom(PairContext(E, K, current), 1,
                                                 K.weak_succ_cache_, <<>>)),
                   LAMBDA K2 : IF K2.relation_ = {} THEN K2 ELSE SimulationLoop(E, K2)))

\* the call after both zone graphs are there; returns [checker, refined, abstract, ret]
SimulationFromGraphs(K, refined, abstract, M) ==
    Bind(SimulationSeed(refined.g.states_, abstract.g.states_), LAMBDA seed :
         IF refined.g.states_ = <<>> \/ abstract.g.states_ = <<>>
         THEN [checker |-> K, refined |-> refined, abstract |-> abstract, ret |-> FALSE]
         ELSE IF K.relation_ \cup Range(seed) = {}
         THEN [checker |-> K, refined |-> refined, abstract |-> abstract, ret |-> FALSE]
         ELSE Bind(AddStatistics(
                       SimulationLoop([W |-> Objects(refined, abstract),
                                       ao |-> IF M.same THEN 1 ELSE 2,
                                       lookup |-> M.lookup, order |-> M.order],
                                      [K EXCEPT !.relation_ = Range(seed),
                                                !.worklist_ = seed]),
                       refined.g.states_, abstract.g.states_),
                   LAMBDA K2 : [checker |-> K2, refined |-> refined,
                                abstract |-> abstract, ret |-> K2.relation_ # {}]))

\* check_rtwbs_simulation(refined, abstract) on checker K, not cancelled
check_rtwbs_simulation(K, refined, abstract, M) ==
    Bind([refined EXCEPT !.g = construct_zone_graph(refined.ta, @)], LAMBDA r2 :
         SimulationFromGraphs(clear_optimisation_state(K), r2,
                              IF M.same THEN r2
                              ELSE [abstract EXCEPT
                                        !.g = construct_zone_graph(abstract.ta, @)],
                              M))

(***************************************************************************)
(* The batched loop of check_rtwbs_equivalence(refined, abstract, true).   *)
(* The iterations of one batch run in a parallel region; each reads        *)
(* relation_ and goes to weak_succ_cache_ without a lock.  The run below   *)
(* takes the iterations of a batch one after the other and reports in      *)
(* race whether two iterations of one batch go to the cache while one of   *)
(* them inserts into it.  C = [omp_threads, hardware_concurrency].         *)
(***************************************************************************)

Max(x, y) == IF x >= y THEN x ELSE y

\* validate_pair of pair p reaches weak_observable_successors_cached
TouchesCache(E, p) ==
    \/ \E k \in 1..Len(E.W[1].ta.transitions_) :
          /\ E.W[1].ta.transitions_[k].from_location
                = Deref(E.W, ZoneStatePtr(E.W, 1, p[1])).location_id
          /\ ~is_tau(E.W[1].ta.transitions_[k])
    \/ \E k \in 1..Len(E.W[E.ao].ta.transitions_) :
          /\ E.W[E.ao].ta.transitions_[k].from_location
                = Deref(E.W, ZoneStatePtr(E.W, E.ao, p[2])).location_id
          /\ ~is_tau(E.W[E.ao].ta.transitions_[k])

\* validate_pair of pair p emplaces into the cache as it is when the batch starts
InsertsIntoCache(E, K, p) ==
    validate_pair(PairContext(E, K, p)).cache # K.weak_succ_cache_

\* two iterations of the batch on different threads, unordered, one of them writing
BatchRace(E, K, batch, C) ==
    /\ C.omp_threads >= 2
    /\ \E i, j \in 1..Len(batch) :
          /\ i # j /\ batch[i] \in K.relation_ /\ batch[j] \in K.relation_
          /\ batch[i] # batch[j]
          /\ InsertsIntoCache(E, K, batch[i]) /\ TouchesCache(E, batch[j])

RECURSIVE BatchIterations(_, _, _, _, _)
\* the omp for loop over the batch from iteration i on;
\* acc = [cache, updates (reverse_deps_ after the merge), to_remove]
BatchIterations(E, K, batch, i, acc) ==
    IF i > Len(batch) THEN acc
    ELSE IF batch[i] \notin K.relation_ THEN BatchIterations(E, K, batch, i + 1, acc)
    ELSE Bind(validate_pair([PairContext(E, K, batch[i]) EXCEPT !.cache = acc.cache]),
              LAMBDA v :
              BatchIterations(E, K, batch, i + 1,
                  [cache |-> v.cache,
                   updates |-> PushDeps(acc.updates, v.deps, 1, batch[i]),
                   to_remove |-> IF v.ok THEN acc.to_remove
                                 ELSE Append(acc.to_remove, batch[i])]))

RECURSIVE RemoveAll(_, _, _)
\* for (pk : to_remove): erase, enqueue the dependents still related, drop its entry
RemoveAll(K, to_remove, k) ==
    IF k > Len(to_remove) THEN K
    ELSE RemoveAll(
             [K EXCEPT !.relation_ = @ \ {to_remove[k]},
                       !.worklist_ = @ \o
                           SelectSeq(IF to_remove[k] \in DOMAIN K.reverse_deps_
                                     THEN K.reverse_deps_[to_remove[k]] ELSE <<>>,
                                     LAMBDA q : q \in K.relation_ \ {to_remove[k]}),
                       !.reverse_deps_ = [d \in (DOMAIN @) \ {to_remove[k]} |-> @[d]]],
             to_remove, k + 1)

RECURSIVE BatchLoop(_, _, _, _)
\* while (!worklist_.empty()) of the batched branch; returns [checker, race]
BatchLoop(E, K, C, race) ==
    IF K.worklist_ = <<>> THEN [checker |-> K, race |-> race]
    ELSE Bind(SubSeq(K.worklist_, 1,
                     Max(1, Len(K.worklist_) \div (2 * C.hardware_concurrency))),
              LAMBDA batch :
         Bind(BatchIterations(E, K, batch, 1,
                              [cache |-> K.weak_succ_cache_, updates |-> K.reverse_deps_,
                               to_remove |-> <<>>]),
              LAMBDA acc :
              BatchLoop(E,
                        RemoveAll([K EXCEPT !.worklist_ = SubSeq(@, Len(batch) + 1, Len(@)),
                                            !.weak_succ_cache_ = acc.cache,
                                            !.reverse_deps_ = acc.updates],
                                  acc.to_remove, 1),
                        C, race \/ BatchRace(E, K, batch, C))))

\* check_rtwbs_equivalence(refined, abstract, use_omp = true) on checker K, not
\* cancelled; returns [checker, refined, abstract, ret, race]
check_rtwbs_equivalence_omp(K, refined, abstract, M, C) ==
    Bind([refined EXCEPT !.g = construct_zone_graph(refined.ta, @)], LAMBDA r2 :
    Bind(IF M.same THEN r2
         ELSE [abstract EXCEPT !.g = construct_zone_graph(abstract.ta, @)], LAMBDA a2 :
    Bind(SeedFrom(r2.g.states_, a2.g.states_, 1, 1), LAMBDA seed :
         IF r2.g.states_ = <<>> \/ a2.g.states_ = <<>> \/ seed = <<>>
         THEN [checker |-> clear_optimisation_state(K), refined |-> r2, abstract |-> a2,
               ret |-> FALSE, race |-> FALSE]
         ELSE Bind(BatchLoop([W |-> Objects(r2, a2), ao |-> IF M.same THEN 1 ELSE 2,
                              lookup |-> M.lookup, order |-> M.order],
                             [clear_optimisation_state(K) EXCEPT
                                  !.relation_ = Range(seed), !.worklist_ = seed],
                             C, FALSE),
                   LAMBDA b :
                   Bind(AddStatistics(b.checker, r2.g.states_, a2.g.states_), LAMBDA K2 :
                        [checker |-> K2, refined |-> r2, abstract |-> a2,
                         ret |-> ResultOf(K2.relation_), race |-> b.race])))))

InitChecker ==
    /\ refIdx \in 1..Len(Automata)
    /\ absIdx \in 1..Len(Automata)
    /\ same \in {s \in BOOLEAN : s => refIdx = absIdx}
    /\ lookup \in {"value", "pointer"}
    /\ order \in {"asc", "desc"}
    /\ RTWBS_CANCEL_FLAG \in BOOLEAN
    /\ cancel_flag = FALSE
    /\ rg = EmptyGraph
    /\ ag = EmptyGraph
    /\ pc = "idle"
    /\ relation_ = {}
    /\ worklist_ = <<>>
    /\ reverse_deps_ = <<>>
    /\ weak_succ_cache_ = <<>>
    /\ tau_closure_cache_ = <<>>
    /\ last_stats_ = [refined_states |-> 0, abstract_states |-> 0, simulation_pairs |-> 0]
    /\ result = FALSE
    /\ OthersIdle
    /\ DriverIdle

\* the watchdog stores true into the installed flag
SetCancel ==
    /\ RTWBS_CANCEL_FLAG /\ ~cancel_flag /\ pc # "done"
    /\ cancel_flag' = TRUE
    /\ UNCHANGED <<kvars, RTWBS_CANCEL_FLAG, ovars, dvars>>

\* entry of check_rtwbs_equivalence up to the worklist loop: clear the caches, build
\* both zone graphs, seed relation_ and worklist_
Start ==
    /\ pc = "idle"
    /\ reverse_deps_' = <<>>
    /\ weak_succ_cache_' = <<>>
    /\ tau_closure_cache_' = <<>>
    /\ IF is_cancelled
       THEN /\ pc' = "done" /\ result' = FALSE
            /\ relation_' = {} /\ worklist_' = <<>>
            /\ UNCHANGED <<rg, ag>>
       ELSE LET gr == construct_zone_graph(Automata[refIdx], rg)
                ga == IF same THEN gr ELSE construct_zone_graph(Automata[absIdx], ag)
                seed == SeedFrom(gr.states_, ga.states_, 1, 1)
            IN  /\ rg' = gr /\ ag' = ga
                /\ relation_' = Range(seed)
                /\ worklist_' = seed
                /\ IF gr.states_ = <<>> \/ ga.states_ = <<>> \/ seed = <<>>
                   THEN pc' = "done" /\ result' = FALSE
                   ELSE pc' = "loop" /\ UNCHANGED result
    /\ UNCHANGED <<refIdx, absIdx, same, lookup, order, RTWBS_CANCEL_FLAG, cancel_flag, last_stats_,
                   ovars, dvars>>

\* loop head with the flag set: relation_.clear(); break
StepCancelled ==
    /\ pc = "loop" /\ worklist_ # <<>> /\ is_cancelled
    /\ relation_' = {}
    /\ pc' = "stats"
    /\ UNCHANGED <<refIdx, absIdx, same, lookup, order, RTWBS_CANCEL_FLAG, cancel_flag, rg, ag,
                   worklist_, reverse_deps_, weak_succ_cache_, tau_closure_cache_,
                   last_stats_, result, ovars, dvars>>

\* variant of AfterValidate that enqueues no parent of a refuted pair
AfterValidate_no_requeue(current, v) ==
    /\ weak_succ_cache_' = v.cache
    /\ IF v.ok
       THEN /\ relation_' = relation_
            /\ reverse_deps_' = PushDeps(reverse_deps_, v.deps, 1, current)
            /\ worklist_' = Tail(worklist_)
       ELSE \E rd \in {PushDeps(reverse_deps_, v.deps, 1, current)} :
            /\ relation_' = relation_ \ {current}
            /\ worklist_' = Tail(worklist_)
            /\ reverse_deps_' = [k \in (DOMAIN rd) \ {current} |-> rd[k]]
    /\ pc' = IF relation_' = {} THEN "stats" ELSE "loop"

\* variant of AfterValidate that puts a pair found valid back at the end of the queue
AfterValidate_requeue_valid(current, v) ==
    /\ weak_succ_cache_' = v.cache
    /\ IF v.ok
       THEN /\ relation_' = relation_
            /\ reverse_deps_' = reverse_deps_
            /\ worklist_' = Append(Tail(worklist_), current)
       ELSE \E rd \in {PushDeps(reverse_deps_, v.deps, 1, current)} :
            /\ relation_' = relation_ \ {current}
            /\ worklist_' = Tail(worklist_) \o
                   SelectSeq(IF current \in DOMAIN rd THEN rd[current] ELSE <<>>,
                             LAMBDA q : q \in relation_ \ {current})
            /\ reverse_deps_' = [k \in (DOMAIN rd) \ {current} |-> rd[k]]
    /\ pc' = IF relation_' = {} THEN "stats" ELSE "loop"

\* the bookkeeping after validate_pair answered v for the pair current
AfterValidate(current, v) ==
    /\ weak_succ_cache_' = v.cache
    /\ IF v.ok
       THEN /\ relation_' = relation_
            /\ reverse_deps_' = PushDeps(reverse_deps_, v.deps, 1, current)
            /\ worklist_' = Tail(worklist_)
       ELSE \E rd \in {PushDeps(reverse_deps_, v.deps, 1, current)} :
            /\ relation_' = relation_ \ {current}
            /\ worklist_' = Tail(worklist_) \o
                   SelectSeq(IF current \in DOMAIN rd THEN rd[current] ELSE <<>>,
                             LAMBDA q : q \in relation_ \ {current})
            /\ reverse_deps_' = [k \in (DOMAIN rd) \ {current} |-> rd[k]]
    /\ pc' = IF relation_' = {} THEN "stats" ELSE "loop"

\* one iteration of the sequential worklist loop
Step ==
    /\ pc = "loop" /\ worklist_ # <<>> /\ ~is_cancelled
    /\ \E current \in {Head(worklist_)} :
          IF current \notin relation_
          THEN /\ worklist_' = Tail(worklist_)
               /\ pc' = "loop"
               /\ UNCHANGED <<relation_, reverse_deps_, weak_succ_cache_>>
          ELSE \E v \in {validate_pair(
                            [W |-> World(rg, ag), ro |-> RefObj, ao |-> AbsObj,
                             r |-> ZoneStatePtr(World(rg, ag), RefObj, current[1]),
                             a |-> ZoneStatePtr(World(rg, ag), AbsObj, current[2]),
                             rel |-> relation_, lookup |-> lookup, order |-> order,
                             cache |-> weak_succ_cache_])} :
                  AfterValidate(current, v)
    /\ UNCHANGED <<refIdx, absIdx, same, lookup, order, RTWBS_CANCEL_FLAG, cancel_flag, rg, ag,
                   tau_closure_cache_, last_stats_, result, ovars, dvars>>

\* after the loop: statistics, then the scan for the initial pair
Finish ==
    /\ pc = "stats" \/ (pc = "loop" /\ worklist_ = <<>>)
    /\ last_stats_' = [refined_states |-> last_stats_.refined_states + Len(rg.states_),
                       abstract_states |-> last_stats_.abstract_states + Len(ag.states_),
                       simulation_pairs |-> last_stats_.simulation_pairs
                                              + Cardinality(relation_)]
    /\ result' = ResultOf(relation_)
    /\ pc' = "done"
    /\ UNCHANGED <<refIdx, absIdx, same, lookup, order, RTWBS_CANCEL_FLAG, cancel_flag, rg, ag,
                   relation_, worklist_, reverse_deps_, weak_succ_cache_,
                   tau_closure_cache_, ovars, dvars>>

NextChecker == Start \/ SetCancel \/ StepCancelled \/ Step \/ Finish

Spec == InitChecker /\ [][NextChecker]_vars

(***************************************************************************)
(* Properties of the pair-level check, under Spec                          *)
(***************************************************************************)

Refined == Automata[refIdx]

Abstract == Automata[absIdx]

\* the call returned and the cancel flag was never set
Returned == pc = "done" /\ ~cancel_flag

InvalidRefinementRejected ==
    (/\ pc = "done" /\ ~same
     /\ \/ Refined = SendTA(10) /\ Abstract = SendTA(5)
        \/ Refined = RecvTA(5) /\ Abstract = RecvTA(10))
    => result = FALSE

\* the send-widened pair, checked to the end without cancellation
InvalidRefinementRejected_witness ==
    /\ Returned /\ ~same
    /\ Refined = SendTA(10) /\ Abstract = SendTA(5)
    /\ last_stats_.refined_states > 0
    /\ result = FALSE

\* C7: the RTWBS-compliant refinement (receive_data? relaxed 5 -> 8, send_ack!
\* tightened 10 -> 7) is accepted: the check returns true
CompliantRefinementAccepted ==
    (Returned /\ ~same /\ Refined = AckTA(8, 7) /\ Abstract = AckTA(5, 10))
    => result = TRUE

\* C8: tau abstraction - a refined automaton that only adds an internal step between
\* the two observable actions of the abstract one is accepted: the check returns true
TauAbstractionAccepted ==
    (/\ Returned /\ ~same
     /\ Refined \in {TauRefinedSeqTA, TauRefinedMidTA}
     /\ Abstract = TauAbstractTA)
    => result = TRUE

(***************************************************************************)
(* One timing_ok call on its own, under SpecTiming                         *)
(***************************************************************************)

\* largest clock value the inclusion tests enumerate (above every guard bound)
MaxValuation == 12

TimingInvariants == {<<>>, <<XLe(5)>>, <<XGe(1)>>, <<XLe(-1)>>}

TimingGuards == {<<>>, <<XLe(5)>>, <<XLe(8)>>, <<XGe(6)>>, <<XLe(-1)>>}

\* [channel, sender]; the empty channel is "not synchronised"
TimingSyncs == {<<"", FALSE>>, <<"a", TRUE>>, <<"a", FALSE>>, <<"b", TRUE>>}

\* x in [lo, hi] as a closed DBM
Interval(lo, hi) ==
    <<dbm_LE_ZERO, dbm_bound2raw(-lo, dbm_WEAK), dbm_bound2raw(hi, dbm_WEAK), dbm_LE_ZERO>>

\* the caller-supplied initial zones, and zones a successor state can hold
InitialZones == {dbm_init, dbm_zero}

SuccessorZones == {dbm_init, Interval(0, 5), Interval(2, 8)}

\* one side of the call: a one-location automaton, its zone state and a transition.
\* State 0 holds the caller's zone as given; any other state holds a zone that went
\* through apply_invariants of its location.
TimingSides ==
    {sd \in [inv : TimingInvariants, zone : InitialZones \cup SuccessorZones,
             guards : TimingGuards, sync : TimingSyncs] :
        \/ sd.zone \in InitialZones
        \/ apply_invariants(TimedAutomaton(<<Location(0, sd.inv)>>, <<>>), sd.zone, 0)
              = sd.zone}

SideTransition(sd) ==
    Transition(0, 0, IF sd.sync[1] = "" THEN "c"
                     ELSE sd.sync[1] \o (IF sd.sync[2] THEN "!" ELSE "?"),
               sd.guards, <<>>, sd.sync[1], sd.sync[2])

SideAutomaton(sd) == TimedAutomaton(<<Location(0, sd.inv)>>, <<SideTransition(sd)>>)

SideState(sd) == ZoneState(0, sd.zone)

InitTiming ==
    /\ t_args \in [r : TimingSides, a : TimingSides]
    /\ t_done = FALSE /\ t_ret = FALSE
    /\ CheckerIdle /\ RTWBS_CANCEL_FLAG = FALSE /\ cancel_flag = FALSE
    /\ DriverIdle /\ RelationIdle /\ GraphIdle /\ WeakIdle /\ StepwiseIdle

\* timing_ok(refined, rz, rt, abs, az, at) runs and returns
CallTimingOk ==
    /\ ~t_done
    /\ t_done' = TRUE
    /\ t_ret' = timing_ok(SideAutomaton(t_args.r), SideState(t_args.r),
                          SideTransition(t_args.r),
                          SideAutomaton(t_args.a), SideState(t_args.a),
                          SideTransition(t_args.a))
    /\ UNCHANGED <<t_args, pvars, gvars, wvars, bvars, svars, cvars, dvars>>

NextTiming == CallTimingOk

SpecTiming == InitTiming /\ [][NextTiming]_vars

\* clock value v satisfies every constraint of the (not necessarily closed) DBM z
InZone(z, v) ==
    /\ z # <<>>
    /\ dbm_LE_ZERO <= z[Cell(0, 0)] /\ dbm_LE_ZERO <= z[Cell(1, 1)]
    /\ dbm_bound2raw(-v, dbm_WEAK) <= z[Cell(0, 1)]
    /\ dbm_bound2raw(v, dbm_WEAK) <= z[Cell(1, 0)]

\* the delayed zone of a side tightened by the guards of its transition: the values
\* of the clock at which the side can take the transition
Prime(sd) ==
    LET ready == ReadyZone(SideAutomaton(sd), SideState(sd))
    IN  IF ready = <<>> THEN {}
        ELSE {v \in 0..MaxValuation : InZone(ConstrainAll(ready, sd.guards, 1), v)}

RPrime == Prime(t_args.r)

APrime == Prime(t_args.a)

BothSenders ==
    /\ t_args.r.sync[1] # "" /\ t_args.r.sync = t_args.a.sync /\ t_args.r.sync[2]

BothReceivers ==
    /\ t_args.r.sync[1] # "" /\ t_args.r.sync = t_args.a.sync /\ ~t_args.r.sync[2]

BothUnsynchronised == t_args.r.sync[1] = "" /\ t_args.a.sync[1] = ""

\* C3: asymmetric timing rule - with R' and A' both consistent, timing_ok returns
\* R' within A' for two unsynchronised transitions and for two senders on one channel,
\* A' within R' for two receivers on one channel, and false in every other case
AsymmetricTimingRule ==
    (t_done /\ RPrime # {} /\ APrime # {}) =>
        t_ret = IF BothUnsynchronised \/ BothSenders THEN RPrime \subseteq APrime
                ELSE IF BothReceivers THEN APrime \subseteq RPrime
                ELSE FALSE

\* two receivers on one channel, the refined window strictly wider: accepted
AsymmetricTimingRule_witness ==
    /\ t_done /\ t_ret = TRUE /\ BothReceivers
    /\ RPrime # {} /\ APrime # {}
    /\ APrime \subseteq RPrime /\ APrime # RPrime

\* C4: timing_ok returns true when neither side can take its transition (both guard
\* sets inconsistent with the side's delayed zone) and false when exactly one can
VacuousTimingRule ==
    t_done =>
        /\ (RPrime = {} /\ APrime = {}) => t_ret = TRUE
        /\ (RPrime = {}) # (APrime = {}) => t_ret = FALSE

(***************************************************************************)
(* The system-level check_rtwbs_equivalence(system_refined,                *)
(* system_abstract, parallel_mode, num_workers, timeout_ms) and            *)
(* check_rtwbs_equivalence_detailed, under SpecDriver: the calling thread, *)
(* the watchdog thread and the pool tasks.  A pair-level call is one step: *)
(* it starts by clearing the containers of its checker, so of the checker  *)
(* only last_stats_ is carried from call to call.                          *)
(***************************************************************************)

\* largest system size explored
MaxAutomata == 2

\* largest pool explored
MaxWorkers == 2

BoolStr(b) == IF b THEN "true" ELSE "false"

\* the automata (positions in Automata) a system is filled with, position after
\* position, going round the row: the refined system from the first row, the
\* abstract system from any row
SystemRows == <<<<1, 12, 3>>, <<3, 12, 1>>, <<1, 3, 12>>>>

RefinedNames == <<"P0", "P1", "P2", "P3">>

AbstractNames == <<"Q0", "Q1", "Q2", "Q3">>

\* System with n automata added by add_automaton, no zone graph built yet
SystemOf(row, names, n) ==
    [automata_ |-> [k \in 1..n |->
                       TimedAutomatonObject(Automata[row[((k - 1) % Len(row)) + 1]],
                                            EmptyGraph)],
     template_names_ |-> [k \in 1..n |-> names[k]]]

\* system_refined.size(), system_abstract.size()
size_refined == Len(system_refined.automata_)

size_abstract == IF same_system THEN size_refined ELSE Len(system_abstract.automata_)

\* variant of SizesDiffer that only notices a refined system larger than the abstract
SizesDiffer_one_sided == size_refined > size_abstract

\* system_refined.size() != system_abstract.size()
SizesDiffer == size_refined # size_abstract

\* system_refined.get_automaton(k - 1), system_abstract.get_automaton(k - 1)
RefinedAt(k) == system_refined.automata_[k]

AbstractAt(k) ==
    IF same_system THEN system_refined.automata_[k] ELSE system_abstract.automata_[k]

AbstractNameAt(k) ==
    IF same_system THEN system_refined.template_names_[k]
    ELSE system_abstract.template_names_[k]

\* variant of CheckStatistics_plus that assigns instead of adding
CheckStatistics_assign(mine, other) == other

\* CheckStatistics::operator+= on the three counters
CheckStatistics_plus(mine, other) ==
    CheckStatistics(mine.refined_states + other.refined_states,
                    mine.abstract_states + other.abstract_states,
                    mine.simulation_pairs + other.simulation_pairs)

\* variant of SystemCheckResult with the two template names exchanged
SystemCheckResult_names_exchanged(i, rn, an, eq, stats) ==
    [automaton_index |-> i, template_name_refined |-> an, template_name_abstract |-> rn,
     is_equivalent |-> eq, statistics |-> stats]

\* SystemCheckResult{i, rn[i], an[i], eq, get_last_check_statistics()}
SystemCheckResult(i, rn, an, eq, stats) ==
    [automaton_index |-> i, template_name_refined |-> rn, template_name_abstract |-> an,
     is_equivalent |-> eq, statistics |-> stats]

\* the checker a pair-level call works on, as its entry leaves it
CheckerWith(stats) == [NewChecker EXCEPT !.last_stats_ = stats]

PairMode == [same |-> same_system, lookup |-> lookup, order |-> order]

\* what a pair-level call hands back: the boolean, the statistics of its checker
\* and the two automaton objects
Outcome(ret, stats, refined, abstract) ==
    [ret |-> ret, stats |-> stats, refined |-> refined, abstract |-> abstract]

OutcomeOf(run) == Outcome(run.ret, run.checker.last_stats_, run.refined, run.abstract)

\* a call that went through its statistics update with the loop disturbed (flag
\* seen inside the loop or inside a successor computation, or a racing batch):
\* any boolean, any number of pairs left of those seeded
DisturbedOutcomes(stats, run) ==
    {Outcome(b, CheckStatistics(stats.refined_states + Len(run.refined.g.states_),
                                stats.abstract_states + Len(run.abstract.g.states_),
                                stats.simulation_pairs + n),
             run.refined, run.abstract) :
        b \in BOOLEAN,
        n \in 0..Cardinality(Range(SeedFrom(run.refined.g.states_,
                                            run.abstract.g.states_, 1, 1)))}

\* a call that saw the flag: at its entry, while seeding, or later
CancelledOutcomes(stats, refined, abstract, run) ==
    {Outcome(FALSE, stats, refined, abstract), Outcome(FALSE, stats, run.refined, run.abstract)}
        \cup DisturbedOutcomes(stats, run)

\* the pair-level call of the sequential loop on a checker with statistics stats
SequentialOutcomes(stats, refined, abstract, cancelled) ==
    Bind(check_rtwbs_equivalence(CheckerWith(stats), refined, abstract, PairMode),
         LAMBDA run :
         {OutcomeOf(run)} \cup
         (IF cancelled THEN CancelledOutcomes(stats, refined, abstract, run) ELSE {}))

\* the pair-level call with use_omp = true
BatchedOutcomes(stats, refined, abstract, cancelled) ==
    Bind(check_rtwbs_equivalence_omp(CheckerWith(stats), refined, abstract, PairMode, omp),
         LAMBDA run :
         {OutcomeOf(run)} \cup
         (IF run.race THEN DisturbedOutcomes(stats, run) ELSE {}) \cup
         (IF cancelled THEN CancelledOutcomes(stats, refined, abstract, run) ELSE {}))

\* the systems after the call on pair k handed back o
StoreRefined(k, o) == [system_refined EXCEPT !.automata_[k] = o.refined]

StoreAbstract(k, o) ==
    IF same_system THEN system_abstract
    ELSE [system_abstract EXCEPT !.automata_[k] = o.abstract]

\* variant of wait_for without the predicate: finished means not timed out
wait_for_no_pred(pred, timed_out) == ~timed_out

\* value of watchdog_cv.wait_for(lk, timeout, pred) once it returns: the predicate
wait_for(pred, timed_out) == pred

\* variant of WatchdogJoined: the caller goes on without waiting for the watchdog
WatchdogNotAwaited == TRUE

\* if (watchdog.joinable()) watchdog.join() has returned
WatchdogJoined == watchdog \in {"none", "exited"}

\* the arguments of a system-level call
InitCall ==
    /\ \E ra \in 1..Len(SystemRows), nr \in 0..MaxAutomata, na \in 0..MaxAutomata :
          /\ system_refined = SystemOf(SystemRows[1], RefinedNames, nr)
          /\ \/ /\ same_system = FALSE
                /\ system_abstract = SystemOf(SystemRows[ra], AbstractNames, na)
             \/ /\ same_system = TRUE /\ ra = 1 /\ nr = na
                /\ system_abstract = system_refined
    /\ \/ /\ api = "check_rtwbs_equivalence"
          /\ parallel_mode \in {"SERIAL", "THREAD_POOL", "OPENMP"}
          /\ timeout_ms \in {-1, 0, 1}
          /\ num_workers \in {w \in 1..MaxWorkers : parallel_mode # "THREAD_POOL" => w = 1}
          /\ omp \in {c \in [omp_threads : 1..2, hardware_concurrency : 1..2] :
                         parallel_mode # "OPENMP" =>
                             (c.omp_threads = 1 /\ c.hardware_concurrency = 1)}
          /\ results = <<>>
       \/ /\ api = "check_rtwbs_equivalence_detailed"
          /\ parallel_mode = "SERIAL" /\ timeout_ms = -1 /\ num_workers = 1
          /\ omp = [omp_threads |-> 1, hardware_concurrency |-> 1]
          /\ results \in {<<>>, <<SystemCheckResult(7, "old", "old", TRUE,
                                                     CheckStatistics(1, 1, 1))>>}

InitDriver ==
    /\ InitCall
    /\ lookup \in {"value", "pointer"}
    /\ order \in {"asc", "desc"}
    /\ last_stats_ \in {CheckStatistics(0, 0, 0), CheckStatistics(3, 2, 1)}
    /\ entry_stats = last_stats_
    /\ checked = <<>>
    /\ done_flag = FALSE /\ watchdog = "none" /\ elapsed = FALSE
    /\ mpc = "call" /\ pair_i = 0 /\ all = TRUE /\ tasks = <<>>
    /\ outcome = "none" /\ done_in_time = FALSE
    /\ CheckerParked /\ RTWBS_CANCEL_FLAG = FALSE /\ cancel_flag = FALSE
    /\ OthersIdle

\* entry: the size test, then the flags and the watchdog thread
Enter ==
    /\ mpc = "call" /\ api = "check_rtwbs_equivalence"
    /\ IF SizesDiffer
       THEN /\ outcome' = "false" /\ mpc' = "returned"
            /\ UNCHANGED <<RTWBS_CANCEL_FLAG, watchdog>>
       ELSE /\ RTWBS_CANCEL_FLAG' = (timeout_ms >= 0)
            /\ watchdog' = IF timeout_ms >= 0 THEN "started" ELSE "none"
            /\ mpc' = IF parallel_mode = "THREAD_POOL" THEN "preconstruct" ELSE "loop"
            /\ UNCHANGED outcome
    /\ UNCHANGED <<kvars, ovars, avars, cancel_flag, results, checked, done_flag, elapsed,
                   pair_i, all, tasks, done_in_time>>

\* watchdog thread body up to the wait
WatchdogRun ==
    /\ watchdog = "started"
    /\ IF timeout_ms = 0
       THEN cancel_flag' = TRUE /\ watchdog' = "exited"
       ELSE watchdog' = "waiting" /\ UNCHANGED cancel_flag
    /\ UNCHANGED <<kvars, ovars, avars, RTWBS_CANCEL_FLAG, results, checked, done_flag,
                   elapsed, mpc, pair_i, all, tasks, outcome, done_in_time>>

\* timeout_ms milliseconds have passed since the watchdog began to wait
Elapse ==
    /\ watchdog = "waiting" /\ ~elapsed
    /\ elapsed' = TRUE
    /\ UNCHANGED <<cvars, ovars, avars, results, checked, done_flag, watchdog, mpc, pair_i,
                   all, tasks, outcome, done_in_time>>

\* wait_for returns (predicate true, or duration passed); if (!finished) cancel
WatchdogWake ==
    /\ watchdog = "waiting" /\ (done_flag \/ elapsed)
    /\ cancel_flag' = IF wait_for(done_flag, elapsed) THEN cancel_flag ELSE TRUE
    /\ watchdog' = "exited"
    /\ UNCHANGED <<kvars, ovars, avars, RTWBS_CANCEL_FLAG, results, checked, done_flag,
                   elapsed, mpc, pair_i, all, tasks, outcome, done_in_time>>

\* SERIAL / OPENMP: head of the loop of check_rtwbs_equivalence__
LoopHead ==
    /\ mpc = "loop"
    /\ IF pair_i >= size_refined THEN mpc' = "join" /\ UNCHANGED all
       ELSE IF is_cancelled THEN mpc' = "join" /\ all' = FALSE
       ELSE mpc' = "pair" /\ UNCHANGED all
    /\ UNCHANGED <<cvars, ovars, avars, results, checked, done_flag, watchdog, elapsed,
                   pair_i, tasks, outcome, done_in_time>>

\* the check of pair i on this checker returns
PairReturn ==
    /\ mpc = "pair"
    /\ \E o \in (IF parallel_mode = "OPENMP"
                 THEN BatchedOutcomes(last_stats_, RefinedAt(pair_i + 1),
                                      AbstractAt(pair_i + 1), is_cancelled)
                 ELSE SequentialOutcomes(last_stats_, RefinedAt(pair_i + 1),
                                         AbstractAt(pair_i + 1), is_cancelled)) :
          /\ all' = (all /\ o.ret)
          /\ last_stats_' = o.stats
          /\ system_refined' = StoreRefined(pair_i + 1, o)
          /\ system_abstract' = StoreAbstract(pair_i + 1, o)
    /\ checked' = Append(checked, pair_i)
    /\ pair_i' = pair_i + 1
    /\ mpc' = "loop"
    /\ UNCHANGED <<jvars, ovars, RTWBS_CANCEL_FLAG, cancel_flag, same_system, api,
                   parallel_mode, num_workers, timeout_ms, omp, entry_stats, results,
                   done_flag, watchdog, elapsed, tasks, outcome, done_in_time>>

\* variant of Preconstruct that enqueues the tasks without constructing a zone graph
Preconstruct_tasks_only ==
    /\ mpc = "preconstruct"
    /\ tasks' = [k \in 1..size_refined |->
                    [st |-> "queued", correct |-> FALSE, stats |-> CheckStatistics(0, 0, 0)]]
    /\ pair_i' = 0 /\ mpc' = "futures"
    /\ UNCHANGED <<all, system_refined, system_abstract>>
    /\ UNCHANGED <<cvars, ovars, same_system, api, parallel_mode, num_workers, timeout_ms,
                   omp, entry_stats, results, checked, done_flag, watchdog, elapsed,
                   outcome, done_in_time>>

\* THREAD_POOL: the sequential pre-construction loop, then every task is enqueued
Preconstruct ==
    /\ mpc = "preconstruct"
    /\ IF pair_i >= size_refined
       THEN /\ tasks' = [k \in 1..size_refined |->
                            [st |-> "queued", correct |-> FALSE,
                             stats |-> CheckStatistics(0, 0, 0)]]
            /\ pair_i' = 0 /\ mpc' = "futures"
            /\ UNCHANGED <<all, system_refined, system_abstract>>
       ELSE IF is_cancelled
       THEN /\ all' = FALSE /\ mpc' = "join"
            /\ UNCHANGED <<tasks, pair_i, system_refined, system_abstract>>
       ELSE /\ system_refined' =
                  [system_refined EXCEPT !.automata_[pair_i + 1].g =
                       construct_zone_graph(RefinedAt(pair_i + 1).ta, @)]
            /\ system_abstract' =
                  IF same_system THEN system_abstract
                  ELSE [system_abstract EXCEPT !.automata_[pair_i + 1].g =
                            construct_zone_graph(AbstractAt(pair_i + 1).ta, @)]
            /\ pair_i' = pair_i + 1 /\ UNCHANGED <<tasks, all, mpc>>
    /\ UNCHANGED <<cvars, ovars, same_system, api, parallel_mode, num_workers, timeout_ms,
                   omp, entry_stats, results, checked, done_flag, watchdog, elapsed,
                   outcome, done_in_time>>

\* a free pool worker takes a queued task and enters local.check_rtwbs_equivalence
TaskStart ==
    /\ mpc \in {"futures", "get", "join"}
    /\ Cardinality({k \in DOMAIN tasks : tasks[k].st = "running"}) < num_workers
    /\ \E k \in DOMAIN tasks :
          /\ tasks[k].st = "queued"
          /\ tasks' = [tasks EXCEPT ![k].st = "running"]
          /\ checked' = Append(checked, k - 1)
    /\ UNCHANGED <<cvars, ovars, avars, results, done_flag, watchdog, elapsed, mpc, pair_i,
                   all, outcome, done_in_time>>

\* the task returns make_pair(correct, local.get_last_check_statistics())
TaskFinish ==
    /\ \E k \in DOMAIN tasks :
          /\ tasks[k].st = "running"
          /\ \E o \in SequentialOutcomes(CheckStatistics(0, 0, 0), RefinedAt(k),
                                         AbstractAt(k), is_cancelled) :
                /\ tasks' = [tasks EXCEPT ![k] = [st |-> "ready", correct |-> o.ret,
                                                  stats |-> o.stats]]
                /\ system_refined' = StoreRefined(k, o)
                /\ system_abstract' = StoreAbstract(k, o)
    /\ UNCHANGED <<cvars, ovars, same_system, api, parallel_mode, num_workers, timeout_ms,
                   omp, entry_stats, results, checked, done_flag, watchdog, elapsed, mpc,
                   pair_i, all, outcome, done_in_time>>

\* head of the loop over the futures
FutureHead ==
    /\ mpc = "futures"
    /\ IF pair_i >= size_refined THEN mpc' = "join" /\ UNCHANGED all
       ELSE IF is_cancelled THEN mpc' = "join" /\ all' = FALSE
       ELSE mpc' = "get" /\ UNCHANGED all
    /\ UNCHANGED <<cvars, ovars, avars, results, checked, done_flag, watchdog, elapsed,
                   pair_i, tasks, outcome, done_in_time>>

\* fut.get() returns once the task has run; this->last_stats_ += stats
FutureGet ==
    /\ mpc = "get"
    /\ tasks[pair_i + 1].st = "ready"
    /\ all' = (all /\ tasks[pair_i + 1].correct)
    /\ last_stats_' = CheckStatistics_plus(last_stats_, tasks[pair_i + 1].stats)
    /\ pair_i' = pair_i + 1
    /\ mpc' = "futures"
    /\ UNCHANGED <<jvars, ovars, avars, RTWBS_CANCEL_FLAG, cancel_flag, results, checked,
                   done_flag, watchdog, elapsed, tasks, outcome, done_in_time>>

\* run_work has returned (the pool is gone, no task is running); join_watchdog,
\* first half: done_flag.store(true); notify_all()
JoinStore ==
    /\ mpc = "join"
    /\ \A k \in DOMAIN tasks : tasks[k].st # "running"
    /\ done_flag' = TRUE
    /\ done_in_time' = ~elapsed
    /\ mpc' = "joining"
    /\ UNCHANGED <<cvars, ovars, avars, results, checked, watchdog, elapsed, pair_i, all,
                   tasks, outcome>>

\* variant of FlagAfterJoin: join_watchdog leaves the pointer as it is
FlagAfterJoin_kept == RTWBS_CANCEL_FLAG

\* if (installed_cancel_flag && RTWBS_CANCEL_FLAG == &cancel_flag) RTWBS_CANCEL_FLAG = nullptr
FlagAfterJoin == IF timeout_ms >= 0 /\ RTWBS_CANCEL_FLAG THEN FALSE ELSE RTWBS_CANCEL_FLAG

\* join_watchdog, second half, then the test of cancel_flag: throw or return res
Join ==
    /\ mpc = "joining"
    /\ WatchdogJoined
    /\ RTWBS_CANCEL_FLAG' = FlagAfterJoin
    /\ outcome' = IF cancel_flag THEN "TimeoutException" ELSE BoolStr(all)
    /\ mpc' = "returned"
    /\ UNCHANGED <<kvars, ovars, avars, cancel_flag, results, checked, done_flag, watchdog,
                   elapsed, pair_i, all, tasks, done_in_time>>

\* check_rtwbs_equivalence_detailed: results.clear(), then the size test
DetailedEnter ==
    /\ mpc = "call" /\ api = "check_rtwbs_equivalence_detailed"
    /\ results' = <<>>
    /\ IF SizesDiffer
       THEN outcome' = "false" /\ mpc' = "returned"
       ELSE mpc' = "detailed" /\ UNCHANGED outcome
    /\ UNCHANGED <<cvars, ovars, avars, checked, done_flag, watchdog, elapsed, pair_i, all,
                   tasks, done_in_time>>

\* one iteration of its loop: the pair-level call on this checker, then the record
DetailedPair ==
    /\ mpc = "detailed" /\ pair_i < size_refined
    /\ \E o \in SequentialOutcomes(last_stats_, RefinedAt(pair_i + 1),
                                   AbstractAt(pair_i + 1), is_cancelled) :
          /\ results' = Append(results,
                 SystemCheckResult(pair_i, system_refined.template_names_[pair_i + 1],
                                   AbstractNameAt(pair_i + 1), o.ret, o.stats))
          /\ all' = (all /\ o.ret)
          /\ last_stats_' = o.stats
          /\ system_refined' = StoreRefined(pair_i + 1, o)
          /\ system_abstract' = StoreAbstract(pair_i + 1, o)
    /\ checked' = Append(checked, pair_i)
    /\ pair_i' = pair_i + 1
    /\ UNCHANGED <<jvars, ovars, RTWBS_CANCEL_FLAG, cancel_flag, same_system, api,
                   parallel_mode, num_workers, timeout_ms, omp, entry_stats, done_flag,
                   watchdog, elapsed, mpc, tasks, outcome, done_in_time>>

\* return all
DetailedReturn ==
    /\ mpc = "detailed" /\ pair_i >= size_refined
    /\ outcome' = BoolStr(all)
    /\ mpc' = "returned"
    /\ UNCHANGED <<cvars, ovars, avars, results, checked, done_flag, watchdog, elapsed,
                   pair_i, all, tasks, done_in_time>>

NextDriver ==
    \/ Enter \/ WatchdogRun \/ Elapse \/ WatchdogWake
    \/ LoopHead \/ PairReturn
    \/ Preconstruct \/ TaskStart \/ TaskFinish \/ FutureHead \/ FutureGet
    \/ JoinStore \/ Join
    \/ DetailedEnter \/ DetailedPair \/ DetailedReturn

SpecDriver == InitDriver /\ [][NextDriver]_vars

SameSize == size_refined = size_abstract

\* C9 as stated: with timeout_ms = 0 the call ends with the timeout error, for every
\* pair of systems and every running mode
ZeroTimeoutRaises ==
    (mpc = "returned" /\ timeout_ms = 0) => outcome = "TimeoutException"

\* C9, for systems with the same number of automata: with timeout_ms = 0 the call
\* ends with the timeout error in every running mode
ZeroTimeoutRaises_sameSize ==
    (mpc = "returned" /\ timeout_ms = 0 /\ SameSize) => outcome = "TimeoutException"

\* a pool run in which every pair was checked and answered true before the watchdog
\* stored the flag, and the call still raised
ZeroTimeoutRaises_witness ==
    /\ mpc = "returned" /\ timeout_ms = 0 /\ SameSize
    /\ parallel_mode = "THREAD_POOL"
    /\ size_refined = MaxAutomata /\ pair_i = size_refined /\ all = TRUE
    /\ outcome = "TimeoutException"

\* the call under observation
SystemCall == api = "check_rtwbs_equivalence"

DetailedCall == api = "check_rtwbs_equivalence_detailed"

\* the two systems handed in hold different numbers of automata
DifferentSizes ==
    ~same_system /\ Len(system_refined.automata_) # Len(system_abstract.automata_)

\* no automaton of either system has a zone graph
NoGraphBuilt ==
    /\ \A k \in DOMAIN system_refined.automata_ :
          system_refined.automata_[k].g = EmptyGraph
    /\ \A k \in DOMAIN system_abstract.automata_ :
          system_abstract.automata_[k].g = EmptyGraph

\* C11: with systems of different sizes the system-level check returns false in its
\* first step - no pair-level call, no zone graph, no watchdog and no flag installed,
\* statistics as at entry, no timeout error - in every mode and for every timeout_ms
SizeMismatchReturnsFalse ==
    (SystemCall /\ DifferentSizes) =>
        /\ mpc \in {"call", "returned"}
        /\ mpc = "returned" => outcome = "false"
        /\ checked = <<>> /\ tasks = <<>>
        /\ NoGraphBuilt
        /\ watchdog = "none" /\ ~RTWBS_CANCEL_FLAG /\ ~cancel_flag
        /\ last_stats_ = entry_stats

\* a pool call with timeout_ms = 0 on a checker used before, the abstract system
\* the larger one: returned false
SizeMismatchReturnsFalse_witness ==
    /\ SystemCall /\ DifferentSizes /\ mpc = "returned" /\ outcome = "false"
    /\ parallel_mode = "THREAD_POOL" /\ timeout_ms = 0
    /\ Len(system_refined.automata_) < Len(system_abstract.automata_)
    /\ Len(system_refined.automata_) > 0
    /\ entry_stats # CheckStatistics(0, 0, 0)

\* the pair-level check of the automata at position k, on a checker of its own and
\* on automata whose zone graphs are not built yet
PairAlone(k) ==
    check_rtwbs_equivalence(NewChecker,
                            TimedAutomatonObject(RefinedAt(k).ta, EmptyGraph),
                            TimedAutomatonObject(AbstractAt(k).ta, EmptyGraph),
                            PairMode)

EveryPairHolds == \A k \in 1..size_refined : PairAlone(k).ret

RECURSIVE StatisticsOfPairs(_)
\* the statistics at entry plus those of the pairs 1..k, each checked alone
StatisticsOfPairs(k) ==
    IF k = 0 THEN entry_stats
    ELSE LET before == StatisticsOfPairs(k - 1)
             alone == PairAlone(k).checker.last_stats_
         IN  CheckStatistics(before.refined_states + alone.refined_states,
                             before.abstract_states + alone.abstract_states,
                             before.simulation_pairs + alone.simulation_pairs)

\* a system-level call on systems of one size has returned and the cancel flag
\* was never set
ReturnedUncancelled ==
    SystemCall /\ SameSize /\ mpc = "returned" /\ ~cancel_flag

\* C12: without cancellation a SERIAL call and a THREAD_POOL call on the same systems
\* return one boolean and leave the same refined_states, abstract_states and
\* simulation_pairs - both equal a value that depends on the systems and on the
\* statistics at entry only - for every pool size and every order of the tasks
ParallelEqualsSerial ==
    (ReturnedUncancelled /\ parallel_mode \in {"SERIAL", "THREAD_POOL"}) =>
        /\ outcome = BoolStr(EveryPairHolds)
        /\ last_stats_ = StatisticsOfPairs(size_refined)

\* a pool of two workers took the task of the second pair before the task of the
\* first, one pair equivalent and one not, on a checker used before
ParallelEqualsSerial_witness ==
    /\ ReturnedUncancelled /\ parallel_mode = "THREAD_POOL" /\ num_workers = 2
    /\ checked = <<1, 0>>
    /\ tasks[1].correct # tasks[2].correct
    /\ entry_stats # CheckStatistics(0, 0, 0)
    /\ outcome = "false"

\* every index 0..size-1 was handed to the pair-level check exactly once
EveryPairChecked ==
    /\ Len(checked) = size_refined
    /\ \A k \in 0..(size_refined - 1) : \E j \in DOMAIN checked : checked[j] = k

\* C13: in every running mode, a system-level call that was not cancelled returns
\* true exactly if the pair-level check holds at every index, and every index is
\* checked even after a pair that is not equivalent
SystemReturnsConjunction ==
    ReturnedUncancelled =>
        /\ outcome = BoolStr(EveryPairHolds)
        /\ EveryPairChecked

\* record j of results is the record of index j - 1: index, the two template
\* names at that index and the answer of the pair-level check there
RecordOfPair(j) ==
    /\ results[j].automaton_index = j - 1
    /\ results[j].template_name_refined = system_refined.template_names_[j]
    /\ results[j].template_name_abstract = AbstractNameAt(j)
    /\ results[j].is_equivalent = PairAlone(j).ret

\* C14: once check_rtwbs_equivalence_detailed is past its first statement, results
\* holds nothing but the records of this call, one per index handled so far, in
\* increasing order; on return from equal sizes there is one record per index and the
\* value is the conjunction of their booleans; from different sizes the value is
\* false and results is empty
DetailedRecords ==
    (DetailedCall /\ mpc # "call") =>
        /\ \A j \in DOMAIN results : j <= size_refined /\ RecordOfPair(j)
        /\ Len(results) = pair_i
        /\ (mpc = "returned" /\ SameSize) =>
              /\ Len(results) = size_refined
              /\ outcome = BoolStr(\A j \in DOMAIN results : results[j].is_equivalent)
        /\ (mpc = "returned" /\ ~SameSize) => (outcome = "false" /\ results = <<>>)

\* a detailed call on systems of two automata has returned with one record saying
\* equivalent and one saying not
DetailedRecords_witness ==
    /\ DetailedCall /\ mpc = "returned" /\ Len(results) = 2
    /\ results[1].is_equivalent # results[2].is_equivalent
    /\ results[1].template_name_refined # results[1].template_name_abstract
    /\ outcome = "false"

\* the counters that describe pair k alone: the zone states of its two automata
\* and the pairs left in R at the end of its check
StatisticsOfPairAlone(k) ==
    Bind(PairAlone(k),
         LAMBDA run : CheckStatistics(Len(run.refined.g.states_),
                                      Len(run.abstract.g.states_),
                                      Cardinality(run.checker.relation_)))

\* C15: in the detailed check the statistics of record j describe the pair at
\* index j - 1 alone, whatever was checked before on the same checker
DetailedStatisticsPerPair ==
    (DetailedCall /\ mpc # "call") =>
        \A j \in DOMAIN results : results[j].statistics = StatisticsOfPairAlone(j)

\* C10: the timeout error comes from the call's own watchdog and from nothing else -
\* no watchdog and no error with a negative timeout; with a positive timeout a run
\* that stored done_flag before the duration passed returns its boolean; and a call
\* past the size test raises exactly when the flag is set at the join
TimeoutOnlyFromWatchdog ==
    /\ timeout_ms < 0 =>
          /\ watchdog = "none" /\ ~RTWBS_CANCEL_FLAG /\ ~cancel_flag
          /\ outcome # "TimeoutException"
    /\ cancel_flag => (timeout_ms >= 0 /\ watchdog = "exited")
    /\ (mpc = "returned" /\ timeout_ms > 0 /\ done_in_time) => outcome = BoolStr(all)
    /\ (mpc = "returned" /\ SameSize) =>
          outcome = IF cancel_flag THEN "TimeoutException" ELSE BoolStr(all)

\* the duration passed after done_flag was stored and before the watchdog woke: the
\* call returned its boolean
TimeoutOnlyFromWatchdog_witness ==
    /\ mpc = "returned" /\ timeout_ms > 0 /\ done_in_time /\ elapsed
    /\ size_refined = MaxAutomata
    /\ outcome = "true"

(***************************************************************************)
(* The pair-level functions as relations on automata: calls of             *)
(* check_rtwbs_equivalence and check_rtwbs_simulation on three automaton   *)
(* objects a, b, c, made one after the other on one checker.               *)
(***************************************************************************)

\* one location, no transition
IdleTA == TimedAutomaton(<<Location(0, <<>>)>>, <<>>)

\* L0 (x <= 1) --a! [x >= 2]--> L1: the guard is never met inside the invariant
LateSendTA ==
    TimedAutomaton(<<Location(0, <<XLe(1)>>), Location(1, <<>>)>>,
                   <<Transition(0, 1, "a!", <<XGe(2)>>, <<>>, "a", TRUE)>>)

RelationAutomata ==
    <<TauAbstractTA, TauRefinedMidTA, TauRefinedSeqTA, IdleTA, LateSendTA>>

RelationMode(aliased) == [same |-> aliased, lookup |-> lookup, order |-> order]

InitRelation ==
    /\ f_args \in [{"a", "b", "c"} -> 1..Len(RelationAutomata)]
    /\ f_objs = [k \in {"a", "b", "c"} |->
                    TimedAutomatonObject(RelationAutomata[f_args[k]], EmptyGraph)]
    /\ f_checker = NewChecker
    /\ f_ret = [k \in {"ab", "bc", "ac", "sim_ab", "sim_aa"} |-> "none"]
    /\ lookup \in {"value", "pointer"}
    /\ order \in {"asc", "desc"}
    /\ last_stats_ = CheckStatistics(0, 0, 0)
    /\ CheckerParked /\ RTWBS_CANCEL_FLAG = FALSE /\ cancel_flag = FALSE
    /\ TimingIdle /\ DriverIdle /\ GraphIdle /\ WeakIdle /\ StepwiseIdle

\* the call named call on the objects x and y has returned run
Returns(call, x, y, run) ==
    /\ f_ret[call] = "none"
    /\ f_ret' = [f_ret EXCEPT ![call] = BoolStr(run.ret)]
    /\ f_checker' = run.checker
    /\ f_objs' = [f_objs EXCEPT ![x] = run.refined, ![y] = run.abstract]
    /\ UNCHANGED <<f_args, cvars, tvars, gvars, wvars, bvars, svars, dvars>>

\* checker.check_rtwbs_equivalence(x, y) on two different objects
EquivalenceRun(x, y) ==
    check_rtwbs_equivalence(f_checker, f_objs[x], f_objs[y], RelationMode(FALSE))

CallEquivalenceAB == \E run \in {EquivalenceRun("a", "b")} : Returns("ab", "a", "b", run)

CallEquivalenceBC == \E run \in {EquivalenceRun("b", "c")} : Returns("bc", "b", "c", run)

CallEquivalenceAC == \E run \in {EquivalenceRun("a", "c")} : Returns("ac", "a", "c", run)

\* checker.check_rtwbs_simulation(a, b)
CallSimulationAB ==
    \E run \in {check_rtwbs_simulation(f_checker, f_objs["a"], f_objs["b"],
                                       RelationMode(FALSE))} :
        Returns("sim_ab", "a", "b", run)

\* checker.check_rtwbs_simulation(a, a)
CallSimulationAA ==
    \E run \in {check_rtwbs_simulation(f_checker, f_objs["a"], f_objs["a"],
                                       RelationMode(TRUE))} :
        Returns("sim_aa", "a", "a", run)

NextRelation ==
    \/ CallEquivalenceAB \/ CallEquivalenceBC \/ CallEquivalenceAC
    \/ CallSimulationAB \/ CallSimulationAA

SpecRelation == InitRelation /\ [][NextRelation]_vars

\* C16: transitivity - when check_rtwbs_equivalence(a, b) and
\* check_rtwbs_equivalence(b, c) returned true, check_rtwbs_equivalence(a, c) does
\* not return false
Transitivity ==
    (f_ret # <<>> /\ f_ret["ab"] = "true" /\ f_ret["bc"] = "true") => f_ret["ac"] # "false"

\* C20: check_rtwbs_simulation answers true wherever check_rtwbs_equivalence does:
\* check_rtwbs_simulation(a, b) is not false when check_rtwbs_equivalence(a, b)
\* returned true, and check_rtwbs_simulation(a, a) is not false
SimulationFollowsEquivalence ==
    f_ret # <<>> =>
        /\ f_ret["ab"] = "true" => f_ret["sim_ab"] # "false"
        /\ f_ret["sim_aa"] # "false"

(***************************************************************************)
(* Zone-graph construction step by step: calls of construct_zone_graph in  *)
(* its two forms on one automaton, the exploration loop one explore_state  *)
(* at a time.                                                              *)
(***************************************************************************)

\* calls made on one automaton
MaxCalls == 3

\* L0 (x <= 5) --a! [x >= 10]--> L1: the guard is never met inside the invariant
UnreachableGuardTA ==
    TimedAutomaton(<<Location(0, <<XLe(5)>>), Location(1, <<>>)>>,
                   <<Transition(0, 1, "a!", <<XGe(10)>>, <<>>, "a", TRUE)>>)

GraphAutomata ==
    <<SendTA(5), AckTA(5, 10), LoopTA, BadInitTA, TauRefinedMidTA, UnreachableGuardTA>>

\* zones a caller hands in: every valuation, the origin, 2 <= x <= 8, the bounds
\* x >= 3 and x <= 1 written down without closing, and a vector of the wrong size
GraphInitialZones ==
    {dbm_init, dbm_zero, Interval(2, 8), Interval(3, 1), <<dbm_LE_ZERO>>}

GraphStateLimits == {1, 2, max_states_limit}

\* states_.clear(); state_map_.clear(); zone_transitions_.clear(); waiting_list_ = {}
Cleared(g) == [EmptyGraph EXCEPT !.constructed_ = g.constructed_]

InitGraph ==
    /\ g_ta \in 1..Len(GraphAutomata)
    /\ g_graph = EmptyGraph /\ g_gen = 0 /\ g_pc = "idle"
    /\ g_call = <<>> /\ g_calls = 0 /\ g_before = <<>>
    /\ CheckerIdle /\ RTWBS_CANCEL_FLAG \in BOOLEAN /\ cancel_flag = FALSE
    /\ TimingIdle /\ DriverIdle /\ RelationIdle /\ WeakIdle /\ StepwiseIdle

\* the arguments of a call <<form, initial_location, initial_zone, MAX_STATES, force>>
\* and the snapshot <<graph, arena generation>> taken at its entry
CallForm(call) == call[1]

CallInitialLocation(call) == call[2]

CallInitialZone(call) == call[3]

CallMaxStates(call) == call[4]

CallForce(call) == call[5]

GraphBefore == g_before[1]

GenBefore == g_before[2]

\* entry of a call: the early return, or clearing and the initial add_state
Entered(call, skip) ==
    /\ g_pc = "idle" /\ g_calls < MaxCalls
    /\ g_calls' = g_calls + 1
    /\ g_call' = call
    /\ g_before' = <<g_graph, g_gen>>
    /\ IF skip THEN UNCHANGED <<g_graph, g_gen, g_pc>>
       ELSE /\ g_graph' = add_state(Cleared(g_graph), CallInitialLocation(call),
                                    CallInitialZone(call))[1]
            /\ g_gen' = g_gen + 1
            /\ g_pc' = "bfs"
    /\ UNCHANGED <<g_ta, cvars, tvars, pvars, wvars, bvars, svars, dvars>>

\* construct_zone_graph(initial_location, initial_zone, MAX_STATES, force)
CallConstruct4 ==
    \E loc \in {0, 1}, zone \in GraphInitialZones, limit \in GraphStateLimits,
       force \in BOOLEAN :
        Entered(<<"four", loc, zone, limit, force>>, AlreadyConstructed(g_graph, force))

\* construct_zone_graph() const
CallConstruct0 ==
    Entered(<<"none", default_initial_location, dbm_init, max_states_limit, TRUE>>,
            g_graph.constructed_)

\* one iteration of the BFS loop: pop the front of waiting_list_, explore_state
ExploreStep ==
    /\ g_pc = "bfs"
    /\ g_graph.waiting_list_ # <<>> /\ Len(g_graph.states_) < CallMaxStates(g_call)
    /\ g_graph' = explore_state(GraphAutomata[g_ta],
                                [g_graph EXCEPT !.waiting_list_ = Tail(@)],
                                Head(g_graph.waiting_list_))
    /\ UNCHANGED <<g_ta, g_gen, g_pc, g_call, g_calls, g_before, cvars, tvars, pvars, wvars, bvars, svars, dvars>>

\* the loop is left: constructed_ = true
FinishConstruct ==
    /\ g_pc = "bfs"
    /\ g_graph.waiting_list_ = <<>> \/ Len(g_graph.states_) >= CallMaxStates(g_call)
    /\ g_graph' = [g_graph EXCEPT !.constructed_ = TRUE]
    /\ g_pc' = "idle"
    /\ UNCHANGED <<g_ta, g_gen, g_call, g_calls, g_before, cvars, tvars, pvars, wvars, bvars, svars, dvars>>

\* the calls and loop steps of the construction; SetCancel is the watchdog of a
\* system-level call with a timeout inside which the construction runs
NextGraph ==
    \/ CallConstruct4 \/ CallConstruct0 \/ ExploreStep \/ FinishConstruct
    \/ SetCancel

SpecGraph == InitGraph /\ [][NextGraph]_vars

\* a DBM of the automaton's dimension, closed and non-empty
CanonicalNonEmpty(z) ==
    /\ Len(z) = dimension_ * dimension_
    /\ z[Cell(0, 0)] = dbm_LE_ZERO /\ z[Cell(1, 1)] = dbm_LE_ZERO
    /\ z[Cell(0, 1)] <= dbm_LE_ZERO
    /\ dbm_addRawRaw(z[Cell(0, 1)], z[Cell(1, 0)]) >= dbm_LE_ZERO

\* C17: once construct_zone_graph has returned, every zone state of the graph, the
\* initial one included, holds a canonical non-empty DBM
StoredZonesCanonical ==
    (g_graph # <<>> /\ g_pc = "idle") =>
        \A k \in DOMAIN g_graph.states_ : CanonicalNonEmpty(g_graph.states_[k].zone)

\* state_map_ and the arena states_ describe the same states under the same ids
MapMatchesArena(g) ==
    /\ \A e \in g.state_map_ :
          e[2] \in 0..(Len(g.states_) - 1) /\ g.states_[e[2] + 1] = e[1]
    /\ \A k \in DOMAIN g.states_ : <<g.states_[k], k - 1>> \in g.state_map_

\* no two arena entries hold the same location and the same DBM
NoDuplicateStates(g) ==
    \A j, k \in DOMAIN g.states_ : g.states_[j] = g.states_[k] => j = k

\* one adjacency list per arena entry, every successor id an arena index
AdjacencyValid(g) ==
    /\ Len(g.zone_transitions_) = Len(g.states_)
    /\ \A k \in DOMAIN g.zone_transitions_ :
          \A n \in DOMAIN g.zone_transitions_[k] :
              g.zone_transitions_[k][n] \in 0..(Len(g.states_) - 1)

\* C18: between any two steps of a construction and after it, state_map_ and the
\* arena agree, no arena entry is repeated, every arena entry has its adjacency list
\* and every successor id names an arena entry
GraphConsistent ==
    g_graph # <<>> =>
        /\ MapMatchesArena(g_graph)
        /\ NoDuplicateStates(g_graph)
        /\ AdjacencyValid(g_graph)

\* inside the loop, a graph of at least two states in which explore_state found a
\* successor that was in state_map_ already
GraphConsistent_witness ==
    /\ g_graph # <<>> /\ g_pc = "bfs" /\ Len(g_graph.states_) >= 2
    /\ \E k \in DOMAIN g_graph.zone_transitions_ :
          \E n \in DOMAIN g_graph.zone_transitions_[k] :
              g_graph.zone_transitions_[k][n] <= k - 1
    /\ GraphConsistent

\* the latest call found the graph constructed and did not ask for a rebuild
CallOnConstructedUnforced ==
    /\ g_call # <<>> /\ GraphBefore.constructed_
    /\ CallForm(g_call) = "none" \/ ~CallForce(g_call)

\* C19: a call on a constructed graph with force = false, or in the form without
\* arguments, leaves states_, state_map_, zone_transitions_ and the arena itself as
\* they were; a call with force = true clears the arena and builds anew
ConstructedGraphKept ==
    /\ CallOnConstructedUnforced =>
          (g_pc = "idle" /\ g_graph = GraphBefore /\ g_gen = GenBefore)
    /\ (g_call # <<>> /\ CallForm(g_call) = "four" /\ CallForce(g_call)) =>
          g_gen = GenBefore + 1

\* a graph of three states was built, then a four-argument call with force = false
\* and another initial zone returned
ConstructedGraphKept_witness ==
    /\ CallOnConstructedUnforced /\ CallForm(g_call) = "four" /\ g_pc = "idle"
    /\ Len(g_graph.states_) >= 3
    /\ CallInitialZone(g_call) # g_graph.states_[1].zone
    /\ g_graph = GraphBefore

\* s2 is what transition t makes of s through the full pipeline: Inv(l), elapse,
\* Inv(l) again, guards and resets of t, Inv(t.to)
FullPipelineSuccessor(ta, s, t, s2) ==
    /\ t.from_location = s.location_id
    /\ t.to_location = s2.location_id
    /\ PostZone(ta, s, t) = s2.zone

\* every entry of every adjacency list is a full-pipeline successor of its state
AdjacencyFromFullPipeline(ta, g) ==
    \A k \in DOMAIN g.zone_transitions_ :
        \A n \in DOMAIN g.zone_transitions_[k] :
            \E i \in DOMAIN ta.transitions_ :
                FullPipelineSuccessor(ta, g.states_[k], ta.transitions_[i],
                                      g.states_[g.zone_transitions_[k][n] + 1])

\* the graph of the automaton under construction was built from location 0 and a
\* canonical zone, and the construction has returned
BuiltFromInitialLocation ==
    /\ g_graph # <<>> /\ g_pc = "idle" /\ g_graph.constructed_
    /\ g_graph.states_ # <<>>
    /\ g_graph.states_[1].location_id = default_initial_location
    /\ CanonicalNonEmpty(g_graph.states_[1].zone)

\* C21: every successor in an adjacency list is the result of the full pipeline
\* (Inv(l), elapse, Inv(l), guards and resets, Inv(target)) for a transition leaving
\* the state's location; the graph of the automaton with Inv(l0): x <= 5 and the
\* guard x >= 10 has exactly one state
SuccessorsFromFullPipeline ==
    g_graph # <<>> =>
        /\ AdjacencyFromFullPipeline(GraphAutomata[g_ta], g_graph)
        /\ (BuiltFromInitialLocation /\ GraphAutomata[g_ta] = UnreachableGuardTA) =>
               Len(g_graph.states_) = 1

\* the latest call went past the early return: it cleared the arena and seeded it
CallSeeded == g_call # <<>> /\ g_gen = GenBefore + 1

\* apply_invariants(Z0, initial_loc) for the arguments of the latest call
SeedWithInvariants ==
    apply_invariants(GraphAutomata[g_ta], CallInitialZone(g_call),
                     CallInitialLocation(g_call))

\* C22: a call that builds the graph stores apply_invariants(Z0, initial_loc) as the
\* zone of state 0, and stores no state at all when that zone is empty
SeedAppliesInvariants ==
    (CallSeeded /\ Len(CallInitialZone(g_call)) = dimension_ * dimension_) =>
        IF SeedWithInvariants = <<>>
        THEN g_graph.states_ = <<>>
        ELSE /\ g_graph.states_ # <<>>
             /\ g_graph.states_[1] =
                    ZoneState(CallInitialLocation(g_call), SeedWithInvariants)

(***************************************************************************)
(* The relation, the worklist and the reverse dependencies during one      *)
(* check, under Spec                                                       *)
(***************************************************************************)

\* every valuation of zone x is a valuation of zone y (both canonical)
ZoneIncluded(x, y) == \A c \in 1..(dimension_ * dimension_) : x[c] <= y[c]

\* the pairs of zone-state ids with equal locations and DBM(r) within DBM(a)
SeedPairs ==
    {PairKey(q[1] - 1, q[2] - 1) :
        q \in {w \in (DOMAIN rg.states_) \X (DOMAIN ag.states_) :
                  /\ rg.states_[w[1]].location_id = ag.states_[w[2]].location_id
                  /\ ZoneIncluded(rg.states_[w[1]].zone, ag.states_[w[2]].zone)}}

\* every pair of S is in queue q, at one position only
EnqueuedOnce(S, q) ==
    /\ Range(q) = S
    /\ \A j, k \in DOMAIN q : q[j] = q[k] => j = k

\* the context validate_pair captures for the pair p in the current state
ContextNow(p) ==
    [W |-> World(rg, ag), ro |-> RefObj, ao |-> AbsObj,
     r |-> ZoneStatePtr(World(rg, ag), RefObj, p[1]),
     a |-> ZoneStatePtr(World(rg, ag), AbsObj, p[2]),
     rel |-> relation_, lookup |-> lookup, order |-> order,
     cache |-> weak_succ_cache_]

\* this step pops p and its validation fails
FailedValidation(p) ==
    /\ pc = "loop" /\ worklist_ # <<>> /\ p = Head(worklist_)
    /\ ~validate_pair(ContextNow(p)).ok

\* the step that seeds: relation_ is exactly the seed, each pair enqueued once
SeedStep ==
    (pc = "idle" /\ pc' = "loop") =>
        (relation_' = SeedPairs' /\ EnqueuedOnce(relation_', worklist_'))

Leaving(W, o, ptr) ==
    {W[o].ta.transitions_[i] :
        i \in Range(get_outgoing_transitions(W[o].ta, Deref(W, ptr).location_id))}

\* the weak successors of ptr over action, uncached
WeakSuccessors(W, o, ptr, action) ==
    Range(weak_observable_successors_raw(W, o, ptr, action, "asc"))

\* the move mt of zone state mptr (object mo) is matched by a transition of zone state
\* optr (object oo) against relation rel; fwd: the moving side is the refined one
MoveMatched(W, mo, mptr, mt, oo, optr, rel, fwd) ==
    \E ot \in Leaving(W, oo, optr) :
        /\ ~is_tau(ot) /\ ot.action = mt.action /\ SyncMatch(mt, ot)
        /\ WeakSuccessors(W, oo, optr, ot.action) # {}
        /\ timing_ok(W[mo].ta, Deref(W, mptr), mt, W[oo].ta, Deref(W, optr), ot)
        /\ \E x \in WeakSuccessors(W, mo, mptr, mt.action),
              y \in WeakSuccessors(W, oo, optr, ot.action) :
               /\ Deref(W, x).location_id = Deref(W, y).location_id
               /\ (IF fwd THEN PairKey(x.id, y.id) ELSE PairKey(y.id, x.id)) \in rel

\* every enabled observable move of mptr has a match on the other side
SideMatched(W, mo, mptr, oo, optr, rel, fwd) ==
    \A mt \in Leaving(W, mo, mptr) :
        (~is_tau(mt) /\ WeakSuccessors(W, mo, mptr, mt.action) # {}) =>
            MoveMatched(W, mo, mptr, mt, oo, optr, rel, fwd)

\* the condition of the claim for the pair p in the current state
PairJustified(p) ==
    Bind(ContextNow(p), LAMBDA C :
         /\ SideMatched(C.W, C.ro, C.r, C.ao, C.a, C.rel, TRUE)
         /\ SideMatched(C.W, C.ao, C.a, C.ro, C.r, C.rel, FALSE))

\* the loop is about to validate the pair at the head of the worklist
AboutToValidate ==
    pc = "loop" /\ worklist_ # <<>> /\ Head(worklist_) \in relation_

\* C24: validate_pair answers true for a pair exactly when every enabled non-tau move
\* of either side has a non-tau match of the other side with the same action and
\* synchronisation, non-empty weak successors, timing_ok and a pair of successors with
\* equal locations in the relation
ValidationIsMatching ==
    AboutToValidate =>
        (validate_pair(ContextNow(Head(worklist_))).ok <=> PairJustified(Head(worklist_)))

\* the parents recorded for pk that are in relation_ once pk is taken out
ParentsInRelation(pk) ==
    IF pk \in DOMAIN reverse_deps_
    THEN {q \in Range(reverse_deps_[pk]) : q \in relation_ \ {pk}}
    ELSE {}

\* what one iteration that pops pk does to relation_, worklist_ and reverse_deps_
IterationAsSpecified(pk) ==
    IF pk \in relation_ /\ ~validate_pair(ContextNow(pk)).ok
    THEN /\ relation_' = relation_ \ {pk}
         /\ Len(worklist_') >= Len(worklist_) - 1
         /\ SubSeq(worklist_', 1, Len(worklist_) - 1) = Tail(worklist_)
         /\ Range(SubSeq(worklist_', Len(worklist_), Len(worklist_'))) =
               ParentsInRelation(pk)
         /\ pk \notin DOMAIN reverse_deps_'
    ELSE /\ relation_' = relation_
         /\ worklist_' = Tail(worklist_)

\* C25: an iteration of the sequential loop that pops pk, with pk in relation_ and
\* its validation failing, removes pk from relation_, enqueues exactly the parents
\* recorded in reverse_deps_[pk] that are still in relation_ and erases
\* reverse_deps_[pk]; otherwise it leaves relation_ alone and enqueues nothing; the
\* loop is left when relation_ has become empty, and with an empty worklist the only
\* step left is the one after the loop
WorklistIteration ==
    [][/\ (pc = "loop" /\ worklist_ # worklist_') =>
             /\ IterationAsSpecified(Head(worklist_))
             /\ pc' = IF relation_' = {} THEN "stats" ELSE "loop"
       /\ (pc = "stats" \/ (pc = "loop" /\ worklist_ = <<>>)) =>
             (pc' = "done" \/ UNCHANGED <<pc, relation_, worklist_, reverse_deps_>>)]_vars

\* q is what is left of the seeded queue: nothing was enqueued after the seeding
SuffixOfSeed(q) ==
    \E n \in 0..Len(worklist_) :
        q = SubSeq(SeedFrom(rg.states_, ag.states_, 1, 1),
                   Len(SeedFrom(rg.states_, ag.states_, 1, 1)) - n + 1,
                   Len(SeedFrom(rg.states_, ag.states_, 1, 1)))

\* in the loop of an uncancelled check: a pair was refuted and a parent of it, still
\* in relation_, stands in the worklist behind the seeded pairs
WorklistIteration_witness ==
    /\ pc = "loop" /\ ~cancel_flag
    /\ relation_ # SeedPairs /\ worklist_ # <<>>
    /\ ~SuffixOfSeed(worklist_)
    /\ worklist_[Len(worklist_)] \in relation_

\* this step validates the pair at the head of the worklist
Validating == pc = "loop" /\ worklist_ # worklist_' /\ Head(worklist_) \in relation_

\* the parents listed under s after this step
ParentsAfter(s) == IF s \in DOMAIN reverse_deps_' THEN Range(reverse_deps_'[s]) ELSE {}

\* the parents listed under s before this step
ParentsBefore(s) == IF s \in DOMAIN reverse_deps_ THEN Range(reverse_deps_[s]) ELSE {}

\* every parent listed in reverse_deps_ is in relation_
ParentsInR ==
    \A s \in DOMAIN reverse_deps_ : \A q \in Range(reverse_deps_[s]) : q \in relation_

\* after a validation of pk with answer v, pk is listed under s only if the
\* validation succeeded and cited s
ListedOnlyWhereCited(pk, v) ==
    \A s \in DOMAIN reverse_deps_' :
        pk \in Range(reverse_deps_'[s]) => (v.ok /\ s \in Range(v.deps))

ListsAfterValidation(pk, v) ==
    /\ DOMAIN reverse_deps_' =
          (DOMAIN reverse_deps_ \cup Range(v.deps)) \ (IF v.ok THEN {} ELSE {pk})
    /\ \A s \in DOMAIN reverse_deps_' :
          ParentsAfter(s) = ParentsBefore(s) \cup (IF s \in Range(v.deps) THEN {pk} ELSE {})

RelationIsFixedPoint ==
    Returned => \A p \in relation_ : validate_pair(ContextNow(p)).ok

\* the loop refuted pairs, the pairs left are justified by pairs that are left
RelationIsFixedPoint_witness ==
    /\ Returned /\ ~same
    /\ Cardinality(relation_) >= 2 /\ relation_ # SeedPairs
    /\ \E p \in relation_ : validate_pair(ContextNow(p)).deps # <<>>
    /\ RelationIsFixedPoint

(***************************************************************************)
(* weak_observable_successors_cached on its own: the queries validate_pair *)
(* makes on one checker for a refined and an abstract automaton, in any    *)
(* order, and clear_optimisation_state between two checks.                 *)
(***************************************************************************)

\* queries made on the checker
MaxQueries == 3

\* L0 --a! [x >= 3]--> L0, L0 --b! [x <= 2]--> L1: location 0 is reached with the
\* zones x >= 0 and x >= 3
LateLoopTA ==
    TimedAutomaton(<<Location(0, <<>>), Location(1, <<>>)>>,
                   <<Transition(0, 0, "a!", <<XGe(3)>>, <<>>, "a", TRUE),
                     Transition(0, 1, "b!", <<XLe(2)>>, <<>>, "b", TRUE)>>)

\* as loaded from XML, where every edge gets the label tau: L0 --a!--> L1 on channel
\* a and the internal edge L0 --> L2
SyncTauTA ==
    TimedAutomaton(<<Location(0, <<>>), Location(1, <<>>), Location(2, <<>>)>>,
                   <<Transition(0, 1, tau_action_name, <<XLe(5)>>, <<>>, "a", TRUE),
                     Transition(0, 2, tau_action_name, <<>>, <<>>, "", FALSE)>>)

WeakAutomata == <<SendTA(5), SendTA(10), LateLoopTA, SyncTauTA, LoopTA>>

\* an automaton object whose zone graph has been constructed
Constructed(ta) == TimedAutomatonObject(ta, construct_zone_graph(ta, EmptyGraph))

InitWeak ==
    /\ w_objs \in {Objects(Constructed(WeakAutomata[i]), Constructed(WeakAutomata[j])) :
                      i, j \in 1..Len(WeakAutomata)}
    /\ w_cache = <<>> /\ w_query = <<>> /\ w_queries = 0
    /\ lookup = "value"
    /\ order \in {"asc", "desc"}
    /\ last_stats_ = CheckStatistics(0, 0, 0)
    /\ CheckerParked /\ RTWBS_CANCEL_FLAG = FALSE /\ cancel_flag = FALSE
    /\ TimingIdle /\ DriverIdle /\ RelationIdle /\ GraphIdle /\ StepwiseIdle

\* the latest query: object, start state, action, vector returned
QueryObject == w_query[1]

QueryStart == Ptr(w_query[1], w_query[2])

QueryAction == w_query[3]

QueryReturned == w_query[4]

\* weak_observable_successors_cached(ta, ta.get_zone_state(id), t->action) as
\* validate_pair calls it: t a non-tau transition leaving the state's location
QueryWeakSuccessors ==
    /\ w_queries < MaxQueries
    /\ \E o \in {1, 2} :
       \E id \in 0..(Len(w_objs[o].g.states_) - 1) :
       \E t \in Leaving(w_objs, o, Ptr(o, id)) :
          /\ ~is_tau(t)
          /\ \E got \in {weak_observable_successors_cached(
                              w_objs, o, Ptr(o, id), t.action, order, w_cache)} :
                /\ w_cache' = got.cache
                /\ w_query' = <<o, id, t.action, got.succs>>
    /\ w_queries' = w_queries + 1
    /\ UNCHANGED <<w_objs, cvars, tvars, pvars, gvars, bvars, svars, dvars>>

\* clear_optimisation_state at the start of the next check
ClearWeakCache ==
    /\ w_cache # <<>>
    /\ w_cache' = <<>>
    /\ UNCHANGED <<w_objs, w_query, w_queries, cvars, tvars, pvars, gvars, bvars, svars,
                   dvars>>

NextWeak == QueryWeakSuccessors \/ ClearWeakCache

SpecWeak == InitWeak /\ [][NextWeak]_vars

\* C28: whatever was queried before in the same check, the cached function returns
\* the set weak_observable_successors_raw gives for the automaton, start state and
\* action of the query
CachedEqualsRaw ==
    w_query # <<>> =>
        Range(QueryReturned) =
            Range(weak_observable_successors_raw(w_objs, QueryObject, QueryStart,
                                                 QueryAction, order))

\* the transitions weak_observable_successors_raw fires as the observable step for
\* action: those labelled action that leave a state of the tau closure of start and
\* lead to a stored zone state
ObservableStepsFired(W, o, start, action) ==
    UNION {{t \in Leaving(W, o, z) : t.action = action /\ PostPtr(W, o, z, t) # NullPtr} :
              z \in Range(tau_closure_raw(W, o, start))}

\* the latest query was made for a transition validate_pair takes as a move
QueriedForObservableMove ==
    \E t \in Leaving(w_objs, QueryObject, QueryStart) : ~is_tau(t) /\ t.action = QueryAction

\* C29: a tau transition is never used as an observable move - the query comes from
\* a non-tau transition, and no transition fired as the observable step of the query
\* is an unsynchronised transition labelled tau or empty
TauNeverObservable ==
    w_query # <<>> =>
        /\ QueriedForObservableMove
        /\ \A t \in ObservableStepsFired(w_objs, QueryObject, QueryStart, QueryAction) :
              ~is_tau(t)

(***************************************************************************)
(* A check and the checks made before it on the same checker, under        *)
(* SpecRelation.                                                           *)
(***************************************************************************)

\* the equivalence calls of SpecRelation with their two objects
EquivalenceCalls == {<<"ab", "a", "b">>, <<"bc", "b", "c">>, <<"ac", "a", "c">>}

\* the automaton of object x in an object constructed anew
FreshObject(x) == TimedAutomatonObject(RelationAutomata[f_args[x]], EmptyGraph)

\* what check_rtwbs_equivalence(x, y) returns on a checker constructed anew
FreshEquivalence(x, y) ==
    check_rtwbs_equivalence(NewChecker, FreshObject(x), FreshObject(y),
                            RelationMode(FALSE)).ret

\* what the checker holds after the first statement of a call made now
StartsEmpty ==
    \E K \in {clear_optimisation_state(f_checker)} :
        /\ K.relation_ = {} /\ K.worklist_ = <<>> /\ K.reverse_deps_ = <<>>
        /\ K.tau_closure_cache_ = <<>> /\ K.weak_succ_cache_ = <<>>

\* C30: a call of check_rtwbs_equivalence starts with empty relation, worklist,
\* reverse dependencies, tau-closure cache and weak-successor cache, and whatever
\* checks were made before on the checker, the call that returned and the call made
\* next return what a checker constructed anew returns for the same automata
ResultIndependentOfHistory ==
    f_ret # <<>> =>
        /\ StartsEmpty
        /\ \A c \in EquivalenceCalls :
              \E fresh \in {BoolStr(FreshEquivalence(c[2], c[3]))} :
                 IF f_ret[c[1]] = "none"
                 THEN BoolStr(EquivalenceRun(c[2], c[3]).ret) = fresh
                 ELSE f_ret[c[1]] = fresh

\* the three equivalence calls returned, two of them true and one false, and the
\* checker still holds the relation and the cache of the last one: the last call
\* was made on a checker that held pairs of an earlier check
ResultIndependentOfHistory_witness ==
    /\ f_ret # <<>>
    /\ \A c \in EquivalenceCalls : f_ret[c[1]] # "none"
    /\ Cardinality({c \in EquivalenceCalls : f_ret[c[1]] = "true"}) = 2
    /\ f_checker.weak_succ_cache_ # <<>>

(***************************************************************************)
(* Cancellation: the flag and the loops that are to honour it.             *)
(***************************************************************************)

\* C31: construct_zone_graph checks the cancel flag at every dequeue of its
\* exploration loop - with the flag set, a step taken inside the loop explores no
\* state and leaves the loop
CancelStopsConstruction ==
    [][(is_cancelled /\ g_pc = "bfs") =>
          (g_pc' = "idle" /\ g_graph'.states_ = g_graph.states_
                          /\ g_graph'.zone_transitions_ = g_graph.zone_transitions_)]_vars

(***************************************************************************)
(* check_rtwbs_equivalence(refined, abstract, use_omp = true) step by      *)
(* step: the entry and the statistics are those of the sequential call     *)
(* (Start, Finish), the loop is taken one batch at a time.  The watchdog   *)
(* of a surrounding system-level call may store the flag between any two   *)
(* steps.                                                                  *)
(***************************************************************************)

MaxThreads == 2

BatchConfigs == [omp_threads : 1..MaxThreads, hardware_concurrency : 1..MaxThreads]

InitBatch ==
    /\ refIdx \in 1..Len(Automata)
    /\ absIdx \in 1..Len(Automata)
    /\ same \in {s \in BOOLEAN : s => refIdx = absIdx}
    /\ lookup \in {"value", "pointer"}
    /\ order \in {"asc", "desc"}
    /\ RTWBS_CANCEL_FLAG \in BOOLEAN
    /\ cancel_flag = FALSE
    /\ rg = EmptyGraph /\ ag = EmptyGraph
    /\ pc = "idle"
    /\ relation_ = {} /\ worklist_ = <<>> /\ reverse_deps_ = <<>>
    /\ weak_succ_cache_ = <<>> /\ tau_closure_cache_ = <<>>
    /\ last_stats_ = CheckStatistics(0, 0, 0)
    /\ result = FALSE
    /\ b_conf \in BatchConfigs
    /\ b_batch = <<>> /\ b_writes = {} /\ b_race = FALSE
    /\ TimingIdle /\ RelationIdle /\ GraphIdle /\ WeakIdle /\ SystemIdle /\ DriverIdle

\* the checker object and the captured environment of the call under way
CheckerNow ==
    [relation_ |-> relation_, worklist_ |-> worklist_, reverse_deps_ |-> reverse_deps_,
     weak_succ_cache_ |-> weak_succ_cache_, tau_closure_cache_ |-> tau_closure_cache_,
     last_stats_ |-> last_stats_]

EnvNow == [W |-> World(rg, ag), ao |-> AbsObj, lookup |-> lookup, order |-> order]

\* get_batch(worklist_, batch_size) with batch_size as computed at the loop head
get_batch(worklist, C) ==
    SubSeq(worklist, 1, Max(1, Len(worklist) \div (2 * C.hardware_concurrency)))

\* every WeakKey{location_id, action} a query on W can have
WeakKeys(W) ==
    UNION {{<<W[o].g.states_[i].location_id, W[o].ta.transitions_[k].action>> :
               i \in DOMAIN W[o].g.states_, k \in DOMAIN W[o].ta.transitions_} :
           o \in {1, 2}}

\* cache with the empty vector under the keys of Ks it does not hold
WithEmpty(cache, Ks) ==
    [k \in Ks \cup DOMAIN cache |-> IF k \in DOMAIN cache THEN cache[k] ELSE <<>>]

\* validate_pair with the flag set from its first statement on: tau_closure_raw
\* returns the empty closure at its first loop head, so weak_observable_successors_raw
\* returns the empty vector, which weak_observable_successors_cached emplaces under
\* every key it is asked for and does not hold.  A key is asked for when the run that
\* finds every other missing key empty ends with the key in the cache.
validate_pair_flag_set(C) ==
    LET missing == WeakKeys(C.W) \ DOMAIN C.cache
        v == validate_pair([C EXCEPT !.cache = WithEmpty(C.cache, missing)])
        asked == {k \in missing :
                     k \in DOMAIN validate_pair(
                                     [C EXCEPT !.cache = WithEmpty(C.cache, missing \ {k})]
                                   ).cache}
    IN  [ok |-> v.ok, cache |-> WithEmpty(C.cache, asked), deps |-> v.deps]

RECURSIVE BatchIterationsFlagSet(_, _, _, _, _)
\* the omp for loop over the batch with the flag set, from iteration i on
BatchIterationsFlagSet(E, K, batch, i, acc) ==
    IF i > Len(batch) THEN acc
    ELSE IF batch[i] \notin K.relation_
    THEN BatchIterationsFlagSet(E, K, batch, i + 1, acc)
    ELSE Bind(validate_pair_flag_set([PairContext(E, K, batch[i])
                                         EXCEPT !.cache = acc.cache]),
              LAMBDA v :
              BatchIterationsFlagSet(E, K, batch, i + 1,
                  [cache |-> v.cache,
                   updates |-> PushDeps(acc.updates, v.deps, 1, batch[i]),
                   to_remove |-> IF v.ok THEN acc.to_remove
                                 ELSE Append(acc.to_remove, batch[i])]))

\* what the parallel region can hand to the main thread as to_remove: what the
\* iterations find, and after a data race on the cache any answer for any pair
RemovalsOf(batch, acc, race) ==
    IF race
    THEN {SelectSeq(batch, LAMBDA p : p \in S) : S \in SUBSET (Range(batch) \cap relation_)}
    ELSE {acc.to_remove}

\* one iteration of the batched loop: get_batch, the parallel region, the merge of
\* the reverse dependencies and the removals
BatchStep ==
    /\ pc = "loop" /\ worklist_ # <<>>
    /\ \E batch \in {get_batch(worklist_, b_conf)} :
       \E acc \in {IF is_cancelled
                   THEN BatchIterationsFlagSet(EnvNow, CheckerNow, batch, 1,
                            [cache |-> weak_succ_cache_, updates |-> reverse_deps_,
                             to_remove |-> <<>>])
                   ELSE BatchIterations(EnvNow, CheckerNow, batch, 1,
                            [cache |-> weak_succ_cache_, updates |-> reverse_deps_,
                             to_remove |-> <<>>])} :
       \E race \in {BatchRace(EnvNow, CheckerNow, batch, b_conf)} :
       \E to_remove \in RemovalsOf(batch, acc, race) :
       \E K2 \in {RemoveAll([CheckerNow EXCEPT
                                 !.worklist_ = SubSeq(@, Len(batch) + 1, Len(@)),
                                 !.weak_succ_cache_ = acc.cache,
                                 !.reverse_deps_ = acc.updates],
                            to_remove, 1)} :
          /\ relation_' = K2.relation_
          /\ worklist_' = K2.worklist_
          /\ reverse_deps_' = K2.reverse_deps_
          /\ weak_succ_cache_' = K2.weak_succ_cache_
          /\ b_batch' = batch
          /\ b_writes' = IF acc.cache # weak_succ_cache_ THEN {"weak_succ_cache_"} ELSE {}
          /\ b_race' = (b_race \/ race)
    /\ pc' = "loop"
    /\ UNCHANGED <<refIdx, absIdx, same, lookup, order, RTWBS_CANCEL_FLAG, cancel_flag,
                   rg, ag, tau_closure_cache_, last_stats_, result, b_conf,
                   tvars, pvars, gvars, wvars, svars, dvars>>

NextBatch == Start \/ SetCancel \/ BatchStep \/ Finish

SpecBatch == InitBatch /\ [][NextBatch]_vars

\* C32: the worklist loop checks the cancel flag at every dequeue - with the flag
\* set at the head of the loop, the step validates no pair, clears R and leaves the
\* loop, and a call that leaves the loop with pairs still queued under a set flag
\* returns false
CancelStopsWorklist ==
    /\ [][(is_cancelled /\ pc = "loop" /\ worklist_ # <<>>) =>
             (/\ relation_' = {} /\ pc' = "stats"
              /\ UNCHANGED <<worklist_, reverse_deps_, weak_succ_cache_, b_batch>>)]_vars
    /\ []((pc = "done" /\ is_cancelled /\ worklist_ # <<>>) => ~result)

\* C34: while the pairs of a batch are validated in parallel no worker writes a
\* container of the checker - the parallel region writes neither relation_ nor
\* reverse_deps_ nor a cache, and no two threads go to one container while one of
\* them writes
WorkersWriteNothing ==
    b_conf # <<>> => (b_writes = {} /\ ~b_race)

\* the sequential loop on the same two zone graphs, on a checker constructed anew
SequentialRun ==
    CheckFromGraphs(NewChecker, TimedAutomatonObject(Automata[refIdx], rg),
                    TimedAutomatonObject(Automata[absIdx], ag),
                    [same |-> same, lookup |-> lookup, order |-> order])

\* C35: with no cancellation the batched call ends with the relation the sequential
\* loop ends with and returns the same boolean, whatever the batch size and the
\* interleaving of the threads
BatchedEqualsSequential ==
    (b_conf # <<>> /\ pc = "done" /\ ~cancel_flag) =>
        \E run \in {SequentialRun} :
            /\ relation_ = run.checker.relation_
            /\ result = run.ret

(***************************************************************************)
(* The pair tasks of the THREAD_POOL mode, under SpecDriver.               *)
(***************************************************************************)

\* every automaton of both systems holds a constructed zone graph
AllGraphsConstructed ==
    /\ \A k \in DOMAIN system_refined.automata_ : RefinedAt(k).g.constructed_
    /\ \A k \in 1..size_abstract : AbstractAt(k).g.constructed_

\* a step of a pool worker: a task is taken up or returns
TaskStep == tasks # <<>> /\ tasks' # tasks

\* C33: in THREAD_POOL mode every zone graph of both systems is constructed before
\* the first task is submitted, no task changes a zone graph, and no task touches
\* the relation, worklist, reverse dependencies, caches or statistics of the checker
\* the call was made on
TasksShareNothing ==
    /\ [](tasks # <<>> => AllGraphsConstructed)
    /\ [][TaskStep =>
             /\ \A k \in 1..size_refined :
                   RefinedAt(k)' = RefinedAt(k) /\ AbstractAt(k)' = AbstractAt(k)
             /\ UNCHANGED kvars]_vars

\* two tasks at once: one has returned its answer while another is running, on
\* systems whose graphs hold more than one zone state
TasksShareNothing_witness ==
    /\ parallel_mode = "THREAD_POOL" /\ tasks # <<>>
    /\ \E j, k \in DOMAIN tasks :
          /\ j # k /\ tasks[j].st = "ready" /\ tasks[k].st = "running"
          /\ tasks[j].stats.simulation_pairs >= 2
    /\ \A k \in DOMAIN system_refined.automata_ : Len(RefinedAt(k).g.states_) >= 2
    /\ AllGraphsConstructed

(***************************************************************************)
(* The state limit of construct_zone_graph, under SpecGraph.               *)
(***************************************************************************)

\* the latest call went past the early return
CallEntered == g_call # <<>> /\ g_gen = GenBefore + 1

\* C36: MAX_STATES is a hard limit - during and after a call that builds the graph
\* the arena never holds more than MAX_STATES zone states, and once it holds
\* MAX_STATES no further state is added
StateLimitHard ==
    /\ [](CallEntered => Len(g_graph.states_) <= CallMaxStates(g_call))
    /\ [][(g_pc = "bfs" /\ Len(g_graph.states_) >= CallMaxStates(g_call)) =>
             g_graph'.states_ = g_graph.states_]_vars

(***************************************************************************)
(* Termination of the sequential worklist loop: the calling thread keeps   *)
(* running, so its steps are taken as long as one is enabled.              *)
(***************************************************************************)

\* the steps of the thread that called check_rtwbs_equivalence: all but the watchdog's
CallingThread == Start \/ StepCancelled \/ Step \/ Finish

\* CallingThread has a step exactly while the call has not returned; this action is
\* enabled in the same states, and the only step of it that NextChecker allows is the
\* return of Start on a flag already set
HasNotReturned ==
    /\ pc # "done" /\ pc' = "done"
    /\ UNCHANGED <<refIdx, absIdx, same, lookup, order, rg, ag, relation_, worklist_,
                   reverse_deps_, weak_succ_cache_, tau_closure_cache_, result, last_stats_,
                   RTWBS_CANCEL_FLAG, cancel_flag, ovars, dvars>>

SpecTerminating == Spec /\ WF_vars(HasNotReturned \/ CallingThread)

\* C37: the sequential worklist loop terminates - a pair that left R never comes
\* back, an iteration that does not shorten the worklist has removed a pair, and
\* from every point of the loop the worklist becomes empty or R becomes empty
WorklistLoopTerminates ==
    /\ [][pc = "loop" => relation_' \subseteq relation_]_vars
    /\ [][(pc = "loop" /\ Len(worklist_') >= Len(worklist_) /\ worklist_' # worklist_) =>
             relation_' # relation_]_vars
    /\ (pc = "loop") ~> (worklist_ = <<>> \/ relation_ = {})

\* an uncancelled check whose loop ran until the worklist was empty, after pairs had
\* been removed and others were kept with their reverse dependencies
WorklistLoopTerminates_witness ==
    /\ Returned /\ worklist_ = <<>>
    /\ relation_ # {} /\ relation_ # SeedPairs
    /\ reverse_deps_ # <<>>
    /\ last_stats_.simulation_pairs = Cardinality(relation_)

(***************************************************************************)
(* The zones the weak-successor functions compute against the zones the   *)
(* construction stored, under SpecWeak (graphs built with the default      *)
(* state limit, which none of them reaches).                               *)
(***************************************************************************)

\* the zone explore_state stores for transition tr of zone state s: Inv(l), elapse,
\* guards and resets of tr, Inv(tr.to); <<>> when it adds no successor
ExploredZone(ta, s, tr) ==
    Bind(OrEmpty(apply_invariants(ta, s.zone, s.location_id),
                 LAMBDA zone_with_inv : time_elapse(ta, zone_with_inv)),
         LAMBDA elapsed_zone :
         IF elapsed_zone = <<>> \/ ~is_transition_enabled(ta, elapsed_zone, tr) THEN <<>>
         ELSE OrEmpty(apply_transition(ta, elapsed_zone, tr), LAMBDA successor_zone :
                      apply_invariants(ta, successor_zone, tr.to_location)))

\* the zone state the adjacency list of z holds for transition tr, nullptr for none
AdjacentBy(W, o, z, tr) ==
    Bind(ExploredZone(W[o].ta, Deref(W, z), tr), LAMBDA final_zone :
         IF final_zone = <<>> THEN NullPtr ELSE FindZoneStatePtr(W, o, tr.to_location, final_zone))

\* the zone states one adjacency edge away from a state of S, over the transitions in sel
EdgeStep(W, o, S, sel(_)) ==
    UNION {{AdjacentBy(W, o, z, t) : t \in {u \in Leaving(W, o, z) : sel(u)}} : z \in S}
        \ {NullPtr}

RECURSIVE TauReach(_, _, _)
\* the zone states reachable from S along adjacency edges of internal transitions
TauReach(W, o, S) ==
    Bind(S \cup EdgeStep(W, o, S, is_tau), LAMBDA T :
         IF T = S THEN S ELSE TauReach(W, o, T))

\* tau* action tau* along the adjacency edges of the zone graph
EdgeWeakSuccessors(W, o, start, action) ==
    TauReach(W, o, EdgeStep(W, o, TauReach(W, o, {start}), LAMBDA u : u.action = action))

\* the zone states the latest query fired transitions from: the tau closure of the
\* start state and the states returned
QueryVisited ==
    Range(tau_closure_raw(w_objs, QueryObject, QueryStart))
        \cup WeakSuccessors(w_objs, QueryObject, QueryStart, QueryAction)

\* C38: on a completely built zone graph every non-empty post-zone the weak-successor
\* functions compute from a stored zone state is a stored zone state, and the weak
\* successors are the states reachable along adjacency edges by tau* a tau*
PostZonesAreStored ==
    w_query # <<>> =>
        /\ \A z \in QueryVisited : \A t \in Leaving(w_objs, QueryObject, z) :
              (is_tau(t) \/ t.action = QueryAction) =>
                 (PostZone(w_objs[QueryObject].ta, Deref(w_objs, z), t) # <<>> =>
                     PostPtr(w_objs, QueryObject, z, t) # NullPtr)
        /\ WeakSuccessors(w_objs, QueryObject, QueryStart, QueryAction) =
              EdgeWeakSuccessors(w_objs, QueryObject, QueryStart, QueryAction)

(***************************************************************************)
(* The System container: automata_, template_names_ and name_to_index_     *)
(* under add_automaton, remove_automaton and clear, one call per step.     *)
(* An automaton object is [obj, added_as]: its identity and, as a record   *)
(* of the call that passed it, the name it was passed with; obj 0 is the   *)
(* null pointer.                                                           *)
(***************************************************************************)

MaxOps == 4

TemplateNames == {"", "A", "B", "C"}

\* System(): three empty containers
NewSystem == [automata_ |-> <<>>, template_names_ |-> <<>>, name_to_index_ |-> [n \in {} |-> 0]]

\* a call: the System it leaves and "ok" or the exception it throws
SystemOutcome(S, how) == [system |-> S, outcome |-> how]

has_template(S, template_name) == template_name \in DOMAIN S.name_to_index_

\* validate_index(index) does not throw
validate_index(S, index) == index < Len(S.automata_)

\* vector::erase(begin() + index)
EraseAt(sq, index) == SubSeq(sq, 1, index) \o SubSeq(sq, index + 2, Len(sq))

add_automaton(S, automaton, template_name) ==
    IF automaton.obj = 0 \/ template_name = "" \/ has_template(S, template_name)
    THEN SystemOutcome(S, "invalid_argument")
    ELSE SystemOutcome(
             [automata_ |-> Append(S.automata_, automaton),
              template_names_ |-> Append(S.template_names_, template_name),
              name_to_index_ |->
                  [n \in DOMAIN S.name_to_index_ \cup {template_name} |->
                      IF n = template_name THEN Len(S.automata_) ELSE S.name_to_index_[n]]],
             "ok")

\* variant of remove_automaton that erases the name and leaves the other indices
remove_automaton_no_shift(S, index) ==
    IF ~validate_index(S, index) THEN SystemOutcome(S, "out_of_range")
    ELSE SystemOutcome(
             [automata_ |-> EraseAt(S.automata_, index),
              template_names_ |-> EraseAt(S.template_names_, index),
              name_to_index_ |->
                  [n \in DOMAIN S.name_to_index_ \ {S.template_names_[index + 1]} |->
                      S.name_to_index_[n]]],
             "ok")

\* remove_automaton(size_t index)
remove_automaton(S, index) ==
    IF ~validate_index(S, index) THEN SystemOutcome(S, "out_of_range")
    ELSE SystemOutcome(
             [automata_ |-> EraseAt(S.automata_, index),
              template_names_ |-> EraseAt(S.template_names_, index),
              name_to_index_ |->
                  [n \in DOMAIN S.name_to_index_ \ {S.template_names_[index + 1]} |->
                      IF S.name_to_index_[n] > index
                      THEN S.name_to_index_[n] - 1 ELSE S.name_to_index_[n]]],
             "ok")

\* remove_automaton(const std::string& template_name)
remove_automaton_by_name(S, template_name) ==
    IF template_name \notin DOMAIN S.name_to_index_
    THEN SystemOutcome(S, "invalid_argument")
    ELSE remove_automaton(S, S.name_to_index_[template_name])

clear(S) == SystemOutcome(NewSystem, "ok")

InitSystem ==
    /\ s_system = NewSystem /\ s_last = <<>> /\ s_before = <<>> /\ s_ops = 0
    /\ lookup = "value" /\ order = "asc"
    /\ last_stats_ = CheckStatistics(0, 0, 0)
    /\ CheckerParked /\ RTWBS_CANCEL_FLAG = FALSE /\ cancel_flag = FALSE
    /\ TimingIdle /\ DriverIdle /\ RelationIdle /\ GraphIdle /\ WeakIdle /\ BatchIdle

\* the call named op with the index or the name given (-1 and "" for none) returned
\* or threw as out says
SystemCalled(op, index, template_name, out) ==
    /\ s_system' = out.system
    /\ s_last' = <<op, index, template_name, out.outcome>>
    /\ s_before' = s_system
    /\ s_ops' = s_ops + 1
    /\ UNCHANGED <<cvars, tvars, pvars, gvars, wvars, bvars, dvars>>

AddAutomaton ==
    /\ s_ops < MaxOps
    /\ \E template_name \in TemplateNames :
       \E obj \in {0, s_ops + 1} :
       \E automaton \in {[obj |-> obj, added_as |-> template_name]} :
       SystemCalled("add_automaton", -1, template_name,
                    add_automaton(s_system, automaton, template_name))

RemoveByIndex ==
    /\ s_ops < MaxOps
    /\ \E index \in 0..MaxOps :
       SystemCalled("remove_automaton", index, "", remove_automaton(s_system, index))

RemoveByName ==
    /\ s_ops < MaxOps
    /\ \E template_name \in TemplateNames :
       SystemCalled("remove_automaton", -1, template_name,
                    remove_automaton_by_name(s_system, template_name))

ClearSystem ==
    /\ s_ops < MaxOps
    /\ SystemCalled("clear", -1, "", clear(s_system))

NextSystem == AddAutomaton \/ RemoveByIndex \/ RemoveByName \/ ClearSystem

SpecSystem == InitSystem /\ [][NextSystem]_vars

\* the three containers describe one list of named automata
ContainersAgree(S) ==
    /\ Len(S.automata_) = Len(S.template_names_)
    /\ Cardinality(DOMAIN S.name_to_index_) = Len(S.template_names_)
    /\ \A i, j \in DOMAIN S.template_names_ :
          S.template_names_[i] = S.template_names_[j] => i = j
    /\ \A n \in DOMAIN S.name_to_index_ :
          /\ S.name_to_index_[n] \in 0..(Len(S.template_names_) - 1)
          /\ S.template_names_[S.name_to_index_[n] + 1] = n
          /\ S.automata_[S.name_to_index_[n] + 1].added_as = n

\* the latest call was an add_automaton that threw
AddRejected == s_last # <<>> /\ s_last[1] = "add_automaton" /\ s_last[4] # "ok"

\* C39: after every sequence of add_automaton, remove_automaton and clear the three
\* containers have one size, names are unique and name_to_index_ gives each name the
\* position of the name and of its automaton; a rejected add_automaton changes nothing
SystemContainersAgree ==
    /\ ContainersAgree(s_system)
    /\ AddRejected => s_system = s_before

\* an automaton in front of others was removed, by name, and another add was
\* rejected before or after in a system that still holds automata
SystemContainersAgree_witness ==
    /\ s_ops = MaxOps /\ Len(s_system.automata_) = 2
    /\ s_last = <<"remove_automaton", -1, s_before.template_names_[1], "ok">>
    /\ s_system.name_to_index_[s_system.template_names_[2]] = 1

(***************************************************************************)
(* The lifetime of the installed cancel flag, under SpecDriver.            *)
(***************************************************************************)

\* the call has ended: a boolean was returned or TimeoutException was thrown
CallEnded == mpc = "returned" /\ outcome # "none"

\* C40: the cancel flag is installed only for the duration of a system-level
\* check_rtwbs_equivalence with a timeout - no flag before the call, and when the call
\* has ended its watchdog is joined and the pointer is reset, so that a check started
\* then finds is_cancelled false
CancelFlagOnlyDuringCall ==
    /\ RTWBS_CANCEL_FLAG => (SystemCall /\ timeout_ms >= 0 /\ mpc \notin {"call", "returned"})
    /\ CallEnded => (WatchdogJoined /\ ~RTWBS_CANCEL_FLAG /\ ~is_cancelled)

\* a thread-pool call with a timeout ended with TimeoutException: the flag it owned
\* is set, its watchdog has exited and the pointer is null again
CancelFlagOnlyDuringCall_witness ==
    /\ CallEnded /\ outcome = "TimeoutException" /\ timeout_ms = 1
    /\ parallel_mode = "THREAD_POOL" /\ size_refined > 0
    /\ cancel_flag /\ watchdog = "exited" /\ ~RTWBS_CANCEL_FLAG

====
